---- MODULE Spec2Model ----
(***************************************************************************)
(* Model of the lox concurrency toolkit: QLock, LightSwitch, RWLock,       *)
(* IndexSemaphore, Announcement and Funnel.  Every component has its own   *)
(* specification (SpecQLock, SpecRWLock, ...) over its own variables; the  *)
(* variables of the other components stay in their initial state.          *)
(***************************************************************************)
EXTENDS Integers, Sequences, FiniteSets, TLC

\* ---- QLock (src/lox/lock/qlock.py) ----
VARIABLES
    count,        \* QLock.count
    queue,        \* QLock.queue: deque of private locks (lock ids)
    qguard,       \* QLock.lock: 0 when free, else the thread holding it
    qlocked,      \* the set of private locks that are currently locked
    qpc,          \* position of each thread in acquire / release
    qmine,        \* local `lock` of a thread inside acquire (0: none)
    qtimed,       \* whether the running acquire was given a timeout >= 0
    qacquired,    \* local `acquired` of a thread inside acquire
    qorder        \* history: threads in the order their acquire took the guard
                  \* lock, until the call returned False or was released again

qvars == <<count, queue, qguard, qlocked, qpc, qmine, qtimed, qacquired, qorder>>

\* ---- LightSwitch and RWLock (src/lox/lock/light_switch.py, rw_lock.py) ----
VARIABLES
    locks,        \* each threading.Lock: 0 when free, else who acquired it
                  \* (a thread, or LSOwner(s) when LightSwitch s took it)
    counter,      \* LightSwitch.counter of each LightSwitch
    counter_lock, \* LightSwitch._counter_lock: 0 when free, else the thread
    lpc,          \* position of each thread in the call it is running
    ltimed,       \* whether the running acquire was given a timeout >= 0
    lbefore,      \* history: for a reader, the writers whose write attempt was
                  \* pending when its acquire('r') began and still is
    lgaveup,      \* history: for a reader, the writers whose write attempt was
                  \* pending when its acquire('r') began and then timed out
    lover,        \* history: number of release() calls of the LightSwitch
                  \* made by callers that were not inside
    lscope        \* for each thread, the rw_flag of the scoped form
                  \* rw_lock(rw_flag, timeout) it is in ("none": a direct
                  \* call), "failed" once it leaves a scope whose acquire
                  \* timed out

lvars == <<locks, counter, counter_lock, lpc, ltimed, lbefore, lgaveup, lover, lscope>>

\* ---- IndexSemaphore (src/lox/lock/index_semaphore.py) ----
VARIABLES
    ival,         \* val given to IndexSemaphore(val): the queue's maxsize
    ipool,        \* IndexSemaphore.queue: the free indices, a FIFO queue
    ipc,          \* position of each thread
    iheld         \* the index a thread got from acquire (-1: None)

ivars == <<ival, ipool, ipc, iheld>>

\* ---- Announcement (src/lox/queue/announcement.py) ----
VARIABLES
    amaxsize,     \* Announcement.maxsize, shared by clone (0: no size limit)
    abacklog_use, \* Announcement.backlog_use, shared by clone
    abl_maxlen,   \* maxlen of the backlog deque (0: None, unbounded)
    abacklog,     \* the backlog deque shared by the family
    asubs,        \* the subscribers deque shared by the family (node ids)
    anodes,       \* number of Announcement objects of the family; 1 is the root
    ahandles,     \* the nodes the application holds (returned to it)
    aq,           \* each node's q
    aqmax,        \* maxsize of each node's q (0: no size limit)
    afinal,       \* each node's _final
    ahasbl,       \* whether each node's backlog attribute refers to the deque
    alock,        \* the RLock shared by the family: 0 or the owning thread
    apc,          \* position of each thread
    aloc,         \* locals of a thread inside put / subscribe:
                  \* [self, item, idx, new]
    aputs,        \* number of put calls begun; the k-th publishes item k
    aputter,      \* history: aputter[k] is the node whose put publishes item k
    adelivered,   \* history: every item ever put on each node's q, in order
    asnap,        \* history: adelivered when the running put began
    apublished,   \* history: the items of the puts that returned, in order
    apre,         \* history: per node, whether its subscribe began with an
                  \* unbounded backlog and no finalize call so far
    abase,        \* history: per node with apre, apublished when its subscribe
                  \* began
    afinalized    \* history: finalize() has been called on some node

avars == <<amaxsize, abacklog_use, abl_maxlen, abacklog, asubs, anodes, ahandles,
           aq, aqmax, afinal, ahasbl, alock, apc, aloc, aputs, aputter, adelivered,
           asnap, apublished, abase, apre, afinalized>>

\* ---- Funnel (src/lox/queue/funnel.py) ----
VARIABLES
    fsubs,        \* the subscribers deque shared by the family (member ids)
    fmembers,     \* number of members created by subscribe; member 0 is the
                  \* Funnel returned by the constructor
    findex,       \* each Funnel object's index
    fhandles,     \* the Funnel objects the application holds
    fd,           \* the shared dict d: job id -> deque of FunnelElement
    fq,           \* the shared output queue q
    flock,        \* the RLock shared by the family: 0 or the owning thread
    fpc,          \* position of each thread
    floc,         \* locals of a thread inside put / subscribe: [self, item, jid]
    fputs,        \* number of put calls that took the lock; the k-th puts item k
    fcontrib,     \* history: per job id, the members whose put for it ran
                  \* since every member subscribed at the time had last done so
    fitem         \* history: per job id and member of fcontrib, the item of
                  \* the member's latest put for the job (0: none)

fvars == <<fsubs, fmembers, findex, fhandles, fd, fq, flock, fpc, floc, fputs, fcontrib,
           fitem>>

\* ---- process pool (src/lox/worker/process.py) ----
VARIABLES
    pexecutor,    \* ScatterGatherCallable._executor[0]: "none" (None), "open"
                  \* (a running Pool) or "closed" (a Pool after close and join)
    ppending,     \* ScatterGatherCallable._pending: deque of result handles
    pjob,         \* state of each job: "none" (not submitted), "queued",
                  \* "running", "ok" (returned) or "err" (raised)
    pfails,       \* whether the decorated function raises on a job's arguments
    ptqdm_pre_update, \* ScatterGatherCallable._tqdm_pre_update
    ppc,          \* position of the calling thread: "idle" or "join"
    plast,        \* how the caller's last call ended ("running" inside gather)
    presult,      \* the list the last gather returned (job j returns value j)
    praised,      \* the job whose exception the last gather raised (0: none)
    pissued,      \* history: the jobs scattered since the last gather returned
    pold,         \* history: the jobs whose results earlier gathers returned
    pfinished,    \* history: the jobs of the current batch in completion order
    phadraise,    \* history: some gather has raised a job's exception
    pn_workers,   \* ScatterGatherDescriptor._n_workers
    pdescexec,    \* ScatterGatherDescriptor._executor: TRUE for the shared
                  \* one-element list, FALSE for None
    pview,        \* the view the caller's current or last call went through:
                  \* "desc" (the descriptor: the decorated function, or the
                  \* method looked up on the class) or "inst" (the callable
                  \* that __get__ makes for an instance)
    pjobview,     \* per job, the view it was scattered through ("none": not
                  \* submitted); its callback belongs to that view's callable
    ptqdm,        \* _base_callable._tqdm: 0 (None) or a progress object
    pbar,         \* per progress object, the sum of the update() arguments
    pcurbar       \* the progress object of the gather in progress or last
                  \* called (0: none was given)

pvars == <<pexecutor, ppending, pjob, pfails, ptqdm_pre_update, ppc, plast, presult,
           praised, pissued, pold, pfinished, phadraise, pn_workers, pdescexec, pview,
           pjobview, ptqdm, pbar, pcurbar>>

\* ---- thread worker pool (src/lox/worker/thread.py) ----
VARIABLES
    tn_workers,   \* _ThreadWrapper.n_workers
    job_queue,    \* _ThreadWrapper.job_queue: the jobs put and not yet taken
    workers_sem,  \* value of the BoundedSemaphore workers_sem
    tcounter,     \* job_lightswitch.counter; jobs_complete_lock is held by
                  \* the LightSwitch exactly while it is > 0
    tgen,         \* number of clear() calls made by gather: names the deque
                  \* that self.response is now
    response_len, \* len of each deque self.response has been
    tpc,          \* position of the thread that calls scatter and gather
    tjob,         \* the Job the running scatter has made (0: none)
    twpc,         \* per _ThreadWorker: "none" (no such thread), "get",
                  \* "run", "exit", or "dead" (ended by an exception)
    twjob,        \* per _ThreadWorker, the job it took off the queue
    twres,        \* per _ThreadWorker, the deque it was given as res
    tscattered,   \* history: number of scatter calls made
    texecuted     \* history: the jobs whose function a worker has called

tvars == <<tn_workers, job_queue, workers_sem, tcounter, tgen, response_len, tpc, tjob,
           twpc, twjob, twres, tscattered, texecuted>>

vars == <<qvars, lvars, ivars, avars, fvars, pvars, tvars>>

\* ------------------------------------------------------------------------
\* Bounds
\* ------------------------------------------------------------------------
NQThreads == 3
MaxQLen == 3
NLThreads == 3
NIThreads == 4
MaxVal == 3
NAThreads == 2
MaxNodes == 3
MaxPuts == 2
MaxFifoPuts == 3
NFThreads == 2
MaxMembers == 3
NJobs == 2
MaxFPuts == 4
MaxJobs == 4
NPWorkers == 2
MaxBars == 1
MaxOver == 2
MaxUnder == 1
NTWorkers == 2
MaxTJobs == 3
MaxTGathers == 2

\* ------------------------------------------------------------------------
\* Generic helpers
\* ------------------------------------------------------------------------
Range(s) == {s[i] : i \in 1..Len(s)}

\* deque.remove(x): drop the first occurrence of x (ValueError when absent
\* is decided by the caller with x \in Range(s)).
RemoveFirst(s, x) ==
    LET i == CHOOSE k \in 1..Len(s) : s[k] = x /\ \A j \in 1..(k-1) : s[j] # x
    IN  SubSeq(s, 1, i-1) \o SubSeq(s, i+1, Len(s))

\* s is an initial segment of t
IsPrefix(s, t) == Len(s) <= Len(t) /\ SubSeq(t, 1, Len(s)) = s

\* remove every occurrence of x (history bookkeeping only)
Without(s, x) == SelectSeq(s, LAMBDA y : y # x)

\* ========================================================================
\* QLock
\* ========================================================================
QThreads == 1..NQThreads

\* identity of QLock.lock (the guard) as an object, next to the private locks
QGuardId == 0

QPrivIds == 1..(MaxQLen + NQThreads)

\* Lock(): a private lock object not referenced by the queue or by a waiter
QFreshLock ==
    CHOOSE l \in QPrivIds :
        /\ l \notin Range(queue)
        /\ \A t \in QThreads : qmine[t] # l

\* the variables of the other components
QOthers == <<lvars, ivars, avars, fvars, pvars, tvars>>

QInit ==
    /\ count = 0
    /\ queue = <<>>
    /\ qguard = 0
    /\ qlocked = {}
    /\ qpc = [t \in QThreads |-> "idle"]
    /\ qmine = [t \in QThreads |-> 0]
    /\ qtimed = [t \in QThreads |-> FALSE]
    /\ qacquired = [t \in QThreads |-> FALSE]
    /\ qorder = <<>>

\* acquire(timeout): `with self.lock:` entered
QAcquireEnter(t, timed) ==
    /\ qpc[t] = "idle"
    /\ qguard = 0
    /\ Len(queue) < MaxQLen
    /\ qguard' = t
    /\ qpc' = [qpc EXCEPT ![t] = "acq_cs"]
    /\ qtimed' = [qtimed EXCEPT ![t] = timed]
    /\ qorder' = Append(qorder, t)
    /\ UNCHANGED <<count, queue, qlocked, qmine, qacquired>>
    /\ UNCHANGED QOthers

\* acquire, lines 77-82 (count > 0: queue a locked private lock and drop the
\* guard) or lines 100-101 (count = 0: count += 1, return True)
QAcquireCheck(t) ==
    /\ qpc[t] = "acq_cs"
    /\ IF count > 0
       THEN LET l == QFreshLock IN
            /\ qlocked' = qlocked \cup {l}
            /\ queue' = Append(queue, l)
            /\ qmine' = [qmine EXCEPT ![t] = l]
            /\ qguard' = 0
            /\ qpc' = [qpc EXCEPT ![t] = "wait"]
            /\ UNCHANGED <<count, qorder, qtimed>>
       ELSE /\ count' = count + 1
            /\ qguard' = 0
            /\ qpc' = [qpc EXCEPT ![t] = "held"]
            /\ qtimed' = [qtimed EXCEPT ![t] = FALSE]
            /\ UNCHANGED <<queue, qlocked, qmine, qorder>>
    /\ UNCHANGED qacquired
    /\ UNCHANGED QOthers

\* line 85: lock.acquire(timeout) succeeds once a release unlocked the lock
QWaitAcquired(t) ==
    /\ qpc[t] = "wait"
    /\ qmine[t] \notin qlocked
    /\ qlocked' = qlocked \cup {qmine[t]}
    /\ qacquired' = [qacquired EXCEPT ![t] = TRUE]
    /\ qpc' = [qpc EXCEPT ![t] = "reacq"]
    /\ UNCHANGED <<count, queue, qguard, qmine, qtimed, qorder>>
    /\ UNCHANGED QOthers

\* line 85: lock.acquire(timeout) times out while the lock is still locked
QWaitTimeout(t) ==
    /\ qpc[t] = "wait"
    /\ qtimed[t]
    /\ qmine[t] \in qlocked
    /\ qacquired' = [qacquired EXCEPT ![t] = FALSE]
    /\ qpc' = [qpc EXCEPT ![t] = "reacq"]
    /\ UNCHANGED <<count, queue, qguard, qlocked, qmine, qtimed, qorder>>
    /\ UNCHANGED QOthers

\* line 86: self.lock.acquire()
QReacquire(t) ==
    /\ qpc[t] = "reacq"
    /\ qguard = 0
    /\ qguard' = t
    /\ qpc' = [qpc EXCEPT ![t] = "post"]
    /\ UNCHANGED <<count, queue, qlocked, qmine, qtimed, qacquired, qorder>>
    /\ UNCHANGED QOthers

\* lines 87-101: after the wait.  On a timeout the code removes self.lock
\* (the guard, QGuardId) from the queue, not the private lock.
QAfterWait(t) ==
    /\ qpc[t] = "post"
    /\ IF qacquired[t]
       THEN /\ count' = count + 1
            /\ qpc' = [qpc EXCEPT ![t] = "held"]
            /\ UNCHANGED <<queue, qorder>>
       ELSE /\ queue' = IF QGuardId \in Range(queue)
                        THEN RemoveFirst(queue, QGuardId)
                        ELSE queue
            /\ qpc' = [qpc EXCEPT ![t] = "idle"]
            /\ qorder' = Without(qorder, t)
            /\ UNCHANGED count
    /\ qguard' = 0
    \* the locals die with the call; a private lock that is referenced by
    \* nothing any more is dropped from the set of locked locks
    /\ qmine' = [qmine EXCEPT ![t] = 0]
    /\ qtimed' = [qtimed EXCEPT ![t] = FALSE]
    /\ qacquired' = [qacquired EXCEPT ![t] = FALSE]
    /\ qlocked' = IF qmine[t] \in Range(queue) THEN qlocked ELSE qlocked \ {qmine[t]}
    /\ UNCHANGED QOthers

\* release(): `with self.lock:` entered by a thread whose acquire returned True
QReleaseEnter(t) ==
    /\ qpc[t] = "held"
    /\ qguard = 0
    /\ qguard' = t
    /\ qpc' = [qpc EXCEPT ![t] = "rel_cs"]
    /\ UNCHANGED <<count, queue, qlocked, qmine, qtimed, qacquired, qorder>>
    /\ UNCHANGED QOthers

\* faulty variant: release() decrements without looking at the count
QReleaseBody_NoCheck(t) ==
    /\ qpc[t] = "rel_cs"
    /\ count' = count - 1
    /\ IF queue # <<>>
       THEN /\ queue' = Tail(queue)
            /\ qlocked' = qlocked \ {Head(queue)}
       ELSE UNCHANGED <<queue, qlocked>>
    /\ qguard' = 0
    /\ qpc' = [qpc EXCEPT ![t] = "idle"]
    /\ qorder' = Without(qorder, t)
    /\ UNCHANGED <<qmine, qtimed, qacquired>>
    /\ UNCHANGED QOthers

\* release, lines 113-117; at count 0 the ValueError of line 115 leaves the
\* `with` block (the guard is released) and reaches the caller
QReleaseBody(t) ==
    /\ qpc[t] = "rel_cs"
    /\ IF count = 0
       THEN /\ qpc' = [qpc EXCEPT ![t] = "raised"]
            /\ UNCHANGED <<count, queue, qlocked>>
       ELSE /\ count' = count - 1
            /\ qpc' = [qpc EXCEPT ![t] = "idle"]
            /\ IF queue # <<>>
               THEN /\ queue' = Tail(queue)
                    /\ qlocked' = qlocked \ {Head(queue)}
               ELSE UNCHANGED <<queue, qlocked>>
    /\ qguard' = 0
    /\ qorder' = Without(qorder, t)
    /\ UNCHANGED <<qmine, qtimed, qacquired>>
    /\ UNCHANGED QOthers

\* release(): `with self.lock:` entered by a thread that holds nothing
\* (release has no notion of an owner, lines 112-113)
QReleaseNotHeld(t) ==
    /\ qpc[t] = "idle"
    /\ qguard = 0
    /\ qguard' = t
    /\ qpc' = [qpc EXCEPT ![t] = "rel_cs"]
    /\ UNCHANGED <<count, queue, qlocked, qmine, qtimed, qacquired, qorder>>
    /\ UNCHANGED QOthers

\* the caller has seen the ValueError of line 115
QReleaseRaised(t) ==
    /\ qpc[t] = "raised"
    /\ qpc' = [qpc EXCEPT ![t] = "idle"]
    /\ UNCHANGED <<count, queue, qguard, qlocked, qmine, qtimed, qacquired, qorder>>
    /\ UNCHANGED QOthers

QNext ==
    \E t \in QThreads :
        \/ \E timed \in BOOLEAN : QAcquireEnter(t, timed)
        \/ QAcquireCheck(t)
        \/ QWaitAcquired(t)
        \/ QWaitTimeout(t)
        \/ QReacquire(t)
        \/ QAfterWait(t)
        \/ QReleaseEnter(t)
        \/ QReleaseBody(t)

\* the steps a thread takes once it has called acquire, up to the end of
\* the release that follows a successful acquire; a timeout that was given
\* runs out while the private lock stays locked
QProgress(t) ==
    \/ QAcquireCheck(t)
    \/ QWaitAcquired(t)
    \/ QWaitTimeout(t)
    \/ QReacquire(t)
    \/ QAfterWait(t)
    \/ QReleaseEnter(t)
    \/ QReleaseBody(t)

\* fair scheduling: a thread that can again and again take its next step
\* takes it, and every holder calls release
QFairness == \A t \in QThreads : SF_vars(QProgress(t))

\* QNext and, in addition, callers that release what they do not hold
QMisuseNext ==
    \/ QNext
    \/ \E t \in QThreads : QReleaseNotHeld(t)
    \/ \E t \in QThreads : QReleaseRaised(t)

\* ========================================================================
\* LightSwitch and RWLock
\* ========================================================================
LThreads == 1..NLThreads

\* RWLock.__init__: read_counter = LightSwitch(no_writers),
\* _write_counter = LightSwitch(no_readers); "switch" = LightSwitch(lock) is
\* a LightSwitch used on its own
Switches == {"read_counter", "write_counter", "switch"}
LockNames == {"no_writers", "no_readers", "readers_queue", "lock"}

\* LightSwitch.lock: the lock a LightSwitch guards
Guarded(s) ==
    CASE s = "read_counter" -> "no_writers"
      [] s = "write_counter" -> "no_readers"
      [] OTHER -> "lock"

\* tag of a lock acquired by LightSwitch s (threads are tagged 1..NLThreads)
LSOwner(s) ==
    CASE s = "read_counter" -> -1
      [] s = "write_counter" -> -2
      [] OTHER -> -3

LOthers == <<qvars, ivars, avars, fvars, pvars, tvars>>

LInit ==
    /\ locks = [l \in LockNames |-> 0]
    /\ counter = [s \in Switches |-> 0]
    /\ counter_lock = [s \in Switches |-> 0]
    /\ lpc = [t \in LThreads |-> "idle"]
    /\ ltimed = [t \in LThreads |-> FALSE]
    /\ lbefore = [t \in LThreads |-> {}]
    /\ lgaveup = [t \in LThreads |-> {}]
    /\ lover = 0
    /\ lscope = [t \in LThreads |-> "none"]

\* ---- LightSwitch.acquire / release as steps of a calling thread ----------
\* light_switch.py:112: self._counter_lock.acquire(timeout) succeeds
LSTakeCounterLock(t, s, from, to) ==
    /\ lpc[t] = from
    /\ counter_lock[s] = 0
    /\ counter_lock' = [counter_lock EXCEPT ![s] = t]
    /\ lpc' = [lpc EXCEPT ![t] = to]

\* faulty variant: acquire() takes the guarded lock only when the counter is not 0
LSIncrement_WrongEdge(t, s, from, to) ==
    /\ lpc[t] = from
    /\ counter_lock[s] = t
    /\ counter[s] # 0 => locks[Guarded(s)] = 0
    /\ locks' = IF counter[s] # 0
                THEN [locks EXCEPT ![Guarded(s)] = LSOwner(s)]
                ELSE locks
    /\ counter' = [counter EXCEPT ![s] = @ + 1]
    /\ counter_lock' = [counter_lock EXCEPT ![s] = 0]
    /\ lpc' = [lpc EXCEPT ![t] = to]

\* light_switch.py:122-129 with the counter lock held: the first acquirer
\* takes the guarded lock (and waits for it holding the counter lock), then
\* counter += 1 and the counter lock is released
LSIncrement(t, s, from, to) ==
    /\ lpc[t] = from
    /\ counter_lock[s] = t
    /\ counter[s] = 0 => locks[Guarded(s)] = 0
    /\ locks' = IF counter[s] = 0
                THEN [locks EXCEPT ![Guarded(s)] = LSOwner(s)]
                ELSE locks
    /\ counter' = [counter EXCEPT ![s] = @ + 1]
    /\ counter_lock' = [counter_lock EXCEPT ![s] = 0]
    /\ lpc' = [lpc EXCEPT ![t] = to]

\* faulty variant: the failing acquire() returns without releasing the
\* counter lock
LSGuardedTimeout_KeepCounterLock(t, s, from, to) ==
    /\ lpc[t] = from
    /\ counter_lock[s] = t
    /\ ltimed[t]
    /\ counter[s] = 0
    /\ locks[Guarded(s)] # 0
    /\ counter_lock' = counter_lock
    /\ lpc' = [lpc EXCEPT ![t] = to]

\* light_switch.py:123-125: the guarded lock is not obtained within
\* t_remaining: release the counter lock, return False
LSGuardedTimeout(t, s, from, to) ==
    /\ lpc[t] = from
    /\ counter_lock[s] = t
    /\ ltimed[t]
    /\ counter[s] = 0
    /\ locks[Guarded(s)] # 0
    /\ counter_lock' = [counter_lock EXCEPT ![s] = 0]
    /\ lpc' = [lpc EXCEPT ![t] = to]

\* faulty variant: release() frees the guarded lock on every decrement
LSDecrement_AlwaysRelease(t, s, from, to) ==
    /\ lpc[t] = from
    /\ counter_lock[s] = t
    /\ counter' = [counter EXCEPT ![s] = @ - 1]
    /\ locks' = [locks EXCEPT ![Guarded(s)] = 0]
    /\ counter_lock' = [counter_lock EXCEPT ![s] = 0]
    /\ lpc' = [lpc EXCEPT ![t] = to]

\* light_switch.py:139-141 with the counter lock held
LSDecrement(t, s, from, to) ==
    /\ lpc[t] = from
    /\ counter_lock[s] = t
    /\ counter' = [counter EXCEPT ![s] = @ - 1]
    /\ locks' = IF counter[s] - 1 = 0
                THEN [locks EXCEPT ![Guarded(s)] = 0]
                ELSE locks
    /\ counter_lock' = [counter_lock EXCEPT ![s] = 0]
    /\ lpc' = [lpc EXCEPT ![t] = to]

\* the call returns: its locals die
LReturn(t) ==
    /\ lpc[t] \in {"failed"}
    /\ lscope[t] = "none"
    /\ lpc' = [lpc EXCEPT ![t] = "idle"]
    /\ ltimed' = [ltimed EXCEPT ![t] = FALSE]
    /\ lbefore' = [lbefore EXCEPT ![t] = {}]
    /\ lgaveup' = [lgaveup EXCEPT ![t] = {}]
    /\ UNCHANGED <<lover, lscope>>
    /\ UNCHANGED <<locks, counter, counter_lock>>
    /\ UNCHANGED LOthers

\* ---- a LightSwitch used on its own: LightSwitch(lock) -------------------
\* acquire(timeout), line 112: the counter lock is obtained
SwAcquireEnter(t, timed) ==
    /\ LSTakeCounterLock(t, "switch", "idle", "sw_cs")
    /\ ltimed' = [ltimed EXCEPT ![t] = timed]
    /\ UNCHANGED <<locks, counter, lbefore, lgaveup, lover, lscope>>
    /\ UNCHANGED LOthers

\* acquire(timeout), lines 112-113: the counter lock is not obtained in time
SwAcquireCounterTimeout(t) ==
    /\ lpc[t] = "idle"
    /\ counter_lock["switch"] # 0
    /\ lpc' = [lpc EXCEPT ![t] = "failed"]
    /\ ltimed' = [ltimed EXCEPT ![t] = TRUE]
    /\ UNCHANGED <<locks, counter, counter_lock, lbefore, lgaveup, lover, lscope>>
    /\ UNCHANGED LOthers

\* acquire, lines 122-129
SwAcquireBody(t) ==
    /\ LSIncrement(t, "switch", "sw_cs", "in")
    /\ ltimed' = [ltimed EXCEPT ![t] = FALSE]
    /\ UNCHANGED <<lbefore, lgaveup, lover, lscope>>
    /\ UNCHANGED LOthers

\* faulty variant: the acquire that fails on the guarded lock has counted
\* itself
SwAcquireGuardedTimeout_Counted(t) ==
    /\ LSGuardedTimeout(t, "switch", "sw_cs", "failed")
    /\ counter' = [counter EXCEPT !["switch"] = @ + 1]
    /\ UNCHANGED <<locks, ltimed, lbefore, lgaveup, lover, lscope>>
    /\ UNCHANGED LOthers

\* acquire, lines 123-125
SwAcquireGuardedTimeout(t) ==
    /\ LSGuardedTimeout(t, "switch", "sw_cs", "failed")
    /\ UNCHANGED <<locks, counter, ltimed, lbefore, lgaveup, lover, lscope>>
    /\ UNCHANGED LOthers

\* release(), line 138, by a thread whose acquire returned True
SwReleaseEnter(t) ==
    /\ LSTakeCounterLock(t, "switch", "in", "sw_rel")
    /\ UNCHANGED <<locks, counter, ltimed, lbefore, lgaveup, lover, lscope>>
    /\ UNCHANGED LOthers

\* release(), lines 139-141
SwReleaseBody(t) ==
    /\ LSDecrement(t, "switch", "sw_rel", "idle")
    /\ UNCHANGED <<ltimed, lbefore, lgaveup, lover, lscope>>
    /\ UNCHANGED LOthers

\* another user of the guarded lock: lock.acquire() / lock.release()
DirectAcquire(t) ==
    /\ lpc[t] = "idle"
    /\ locks["lock"] = 0
    /\ locks' = [locks EXCEPT !["lock"] = t]
    /\ lpc' = [lpc EXCEPT ![t] = "direct"]
    /\ UNCHANGED <<counter, counter_lock, ltimed, lbefore, lgaveup, lover, lscope>>
    /\ UNCHANGED LOthers

DirectRelease(t) ==
    /\ lpc[t] = "direct"
    /\ locks' = [locks EXCEPT !["lock"] = 0]
    /\ lpc' = [lpc EXCEPT ![t] = "idle"]
    /\ UNCHANGED <<counter, counter_lock, ltimed, lbefore, lgaveup, lover, lscope>>
    /\ UNCHANGED LOthers

\* release(), line 138, by a caller that is not inside (release has no
\* notion of who acquired, lines 131-141)
SwReleaseNotHeldEnter(t) ==
    /\ lover < MaxOver
    /\ LSTakeCounterLock(t, "switch", "idle", "sw_over")
    /\ UNCHANGED <<locks, counter, ltimed, lbefore, lgaveup, lover, lscope>>
    /\ UNCHANGED LOthers

\* release(), lines 139-141, of such a caller
SwReleaseNotHeldBody(t) ==
    /\ LSDecrement(t, "switch", "sw_over", "idle")
    /\ lover' = lover + 1
    /\ UNCHANGED lscope
    /\ UNCHANGED <<ltimed, lbefore, lgaveup>>
    /\ UNCHANGED LOthers

SwNext ==
    \E t \in LThreads :
        \/ \E timed \in BOOLEAN : SwAcquireEnter(t, timed)
        \/ SwAcquireCounterTimeout(t)
        \/ SwAcquireBody(t)
        \/ SwAcquireGuardedTimeout(t)
        \/ SwReleaseEnter(t)
        \/ SwReleaseBody(t)
        \/ DirectAcquire(t)
        \/ DirectRelease(t)
        \/ LReturn(t)

\* SwNext and, in addition, callers that release without being inside
SwMisuseNext ==
    \/ SwNext
    \/ \E t \in LThreads : SwReleaseNotHeldEnter(t)
    \/ \E t \in LThreads : SwReleaseNotHeldBody(t)

\* ---- RWLock --------------------------------------------------------------
\* writers whose write attempt is pending: write_counter incremented
\* (rw_lock.py:108 returned True), no_writers not yet obtained (line 112)
PendingWriters == {w \in LThreads : lpc[w] = "w3"}

\* acquire(rw_flag, timeout) is called (lines 91-93 / 107)
RWAcquireCall(t, flag, timed) ==
    /\ lpc[t] = "idle"
    /\ lpc' = [lpc EXCEPT ![t] = IF flag = "r" THEN "r1" ELSE "w1"]
    /\ ltimed' = [ltimed EXCEPT ![t] = timed]
    /\ lbefore' = [lbefore EXCEPT ![t] = IF flag = "r" THEN PendingWriters ELSE {}]
    /\ lscope' = [lscope EXCEPT ![t] = "none"]
    /\ UNCHANGED <<locks, counter, counter_lock, lgaveup, lover>>
    /\ UNCHANGED LOthers

\* 'r', line 94: self._readers_queue.acquire(timeout) succeeds
RTakeReadersQueue(t) ==
    /\ lpc[t] = "r1"
    /\ locks["readers_queue"] = 0
    /\ locks' = [locks EXCEPT !["readers_queue"] = t]
    /\ lpc' = [lpc EXCEPT ![t] = "r2"]
    /\ UNCHANGED <<counter, counter_lock, ltimed, lbefore, lgaveup, lover, lscope>>
    /\ UNCHANGED LOthers

\* 'r', lines 94-96: readers_queue not obtained in time, return False
RReadersQueueTimeout(t) ==
    /\ lpc[t] = "r1"
    /\ ltimed[t]
    /\ locks["readers_queue"] # 0
    /\ lpc' = [lpc EXCEPT ![t] = "failed"]
    /\ UNCHANGED <<locks, counter, counter_lock, ltimed, lbefore, lgaveup, lover, lscope>>
    /\ UNCHANGED LOthers

\* faulty variant: the reader does not wait for no_readers
RTakeNoReaders_NoWait(t) ==
    /\ lpc[t] = "r2"
    /\ lpc' = [lpc EXCEPT ![t] = "r3"]
    /\ UNCHANGED <<locks, counter, counter_lock, ltimed, lbefore, lgaveup, lover, lscope>>
    /\ UNCHANGED LOthers

\* 'r', line 98: self._no_readers.acquire(timeout) succeeds
RTakeNoReaders(t) ==
    /\ lpc[t] = "r2"
    /\ locks["no_readers"] = 0
    /\ locks' = [locks EXCEPT !["no_readers"] = t]
    /\ lpc' = [lpc EXCEPT ![t] = "r3"]
    /\ UNCHANGED <<counter, counter_lock, ltimed, lbefore, lgaveup, lover, lscope>>
    /\ UNCHANGED LOthers

\* 'r', lines 98-101: no_readers not obtained in time: release
\* readers_queue, return False
RNoReadersTimeout(t) ==
    /\ lpc[t] = "r2"
    /\ ltimed[t]
    /\ locks["no_readers"] # 0
    /\ locks' = [locks EXCEPT !["readers_queue"] = 0]
    /\ lpc' = [lpc EXCEPT ![t] = "failed"]
    /\ UNCHANGED <<counter, counter_lock, ltimed, lbefore, lgaveup, lover, lscope>>
    /\ UNCHANGED LOthers

\* 'r', line 103: read_counter.acquire takes its counter lock
RCounterEnter(t) ==
    /\ LSTakeCounterLock(t, "read_counter", "r3", "r4")
    /\ UNCHANGED <<locks, counter, ltimed, lbefore, lgaveup, lover, lscope>>
    /\ UNCHANGED LOthers

\* 'r', lines 103-106: read_counter.acquire returns False (counter lock not
\* obtained in time); no_readers and readers_queue are released
RCounterTimeout(t) ==
    /\ lpc[t] = "r3"
    /\ ltimed[t]
    /\ counter_lock["read_counter"] # 0
    /\ locks' = [locks EXCEPT !["no_readers"] = 0, !["readers_queue"] = 0]
    /\ lpc' = [lpc EXCEPT ![t] = "failed"]
    /\ UNCHANGED <<counter, counter_lock, ltimed, lbefore, lgaveup, lover, lscope>>
    /\ UNCHANGED LOthers

\* faulty variant: readers_queue stays held while the reader is inside
ReleaseEntryLocks_KeepQueue(l) == [l EXCEPT !["no_readers"] = 0]

\* the two releases of lines 105-106
ReleaseEntryLocks(l) == [l EXCEPT !["no_readers"] = 0, !["readers_queue"] = 0]

\* 'r', lines 103-106 and 115, with the counter lock of read_counter held:
\* read_counter.acquire increments (taking no_writers for the first reader)
\* and acquire returns True, or it times out on no_writers and acquire
\* returns False; either way no_readers and readers_queue are released.
\* (Inside RWLock no_writers is never found held here: a writer that holds
\* it keeps no_readers held, see RNoWritersFreeForFirstReader.)
RCounterBody(t) ==
    /\ lpc[t] = "r4"
    /\ counter_lock["read_counter"] = t
    /\ counter_lock' = [counter_lock EXCEPT !["read_counter"] = 0]
    /\ IF counter["read_counter"] = 0 /\ locks["no_writers"] # 0
       THEN /\ ltimed[t]
            /\ locks' = ReleaseEntryLocks(locks)
            /\ lpc' = [lpc EXCEPT ![t] = "failed"]
            /\ UNCHANGED <<counter, ltimed>>
       ELSE /\ locks' = ReleaseEntryLocks(
                          IF counter["read_counter"] = 0
                          THEN [locks EXCEPT !["no_writers"] = LSOwner("read_counter")]
                          ELSE locks)
            /\ counter' = [counter EXCEPT !["read_counter"] = @ + 1]
            /\ lpc' = [lpc EXCEPT ![t] = "reading"]
            /\ ltimed' = [ltimed EXCEPT ![t] = FALSE]
    /\ UNCHANGED <<lbefore, lgaveup, lover, lscope>>
    /\ UNCHANGED LOthers

\* 'w', line 108: write_counter.acquire takes its counter lock
WCounterEnter(t) ==
    /\ LSTakeCounterLock(t, "write_counter", "w1", "w2")
    /\ UNCHANGED <<locks, counter, ltimed, lbefore, lgaveup, lover, lscope>>
    /\ UNCHANGED LOthers

\* 'w', lines 108-110: write_counter.acquire returns False (counter lock)
WCounterTimeout(t) ==
    /\ lpc[t] = "w1"
    /\ ltimed[t]
    /\ counter_lock["write_counter"] # 0
    /\ lpc' = [lpc EXCEPT ![t] = "failed"]
    /\ UNCHANGED <<locks, counter, counter_lock, ltimed, lbefore, lgaveup, lover, lscope>>
    /\ UNCHANGED LOthers

\* 'w', line 108: write_counter.acquire increments (taking no_readers for
\* the first writer)
WCounterBody(t) ==
    /\ LSIncrement(t, "write_counter", "w2", "w3")
    /\ UNCHANGED <<ltimed, lbefore, lgaveup, lover, lscope>>
    /\ UNCHANGED LOthers

\* 'w', lines 108-110: write_counter.acquire times out on no_readers
WCounterGuardedTimeout(t) ==
    /\ LSGuardedTimeout(t, "write_counter", "w2", "failed")
    /\ UNCHANGED <<locks, counter, ltimed, lbefore, lgaveup, lover, lscope>>
    /\ UNCHANGED LOthers

\* 'w', line 112: self._no_writers.acquire(timeout) succeeds, return True
WTakeNoWriters(t) ==
    /\ lpc[t] = "w3"
    /\ locks["no_writers"] = 0
    /\ locks' = [locks EXCEPT !["no_writers"] = t]
    /\ lpc' = [lpc EXCEPT ![t] = "writing"]
    /\ ltimed' = [ltimed EXCEPT ![t] = FALSE]
    /\ lbefore' = [r \in LThreads |-> lbefore[r] \ {t}]
    /\ UNCHANGED <<counter, counter_lock, lgaveup, lover, lscope>>
    /\ UNCHANGED LOthers

\* 'w', lines 112-114: no_writers not obtained in time; the rollback
\* write_counter.release() starts
WNoWritersTimeout(t) ==
    /\ lpc[t] = "w3"
    /\ ltimed[t]
    /\ locks["no_writers"] # 0
    /\ lpc' = [lpc EXCEPT ![t] = "w_rb1"]
    /\ lbefore' = [r \in LThreads |-> lbefore[r] \ {t}]
    /\ lgaveup' = [r \in LThreads |->
                     IF t \in lbefore[r] THEN lgaveup[r] \cup {t} ELSE lgaveup[r]]
    /\ UNCHANGED <<lover, lscope>>
    /\ UNCHANGED <<locks, counter, counter_lock, ltimed>>
    /\ UNCHANGED LOthers

\* 'w', line 114: write_counter.release() takes the counter lock
WRollbackEnter(t) ==
    /\ LSTakeCounterLock(t, "write_counter", "w_rb1", "w_rb2")
    /\ UNCHANGED <<locks, counter, ltimed, lbefore, lgaveup, lover, lscope>>
    /\ UNCHANGED LOthers

\* faulty variant: the timed-out writer returns False without undoing its
\* increment of write_counter
WRollbackBody_Skip(t) ==
    /\ lpc[t] = "w_rb2"
    /\ counter_lock["write_counter"] = t
    /\ counter_lock' = [counter_lock EXCEPT !["write_counter"] = 0]
    /\ lpc' = [lpc EXCEPT ![t] = "failed"]
    /\ UNCHANGED <<locks, counter, ltimed, lbefore, lgaveup, lover, lscope>>
    /\ UNCHANGED LOthers

\* 'w', lines 114-115: write_counter.release() decrements, return False
WRollbackBody(t) ==
    /\ LSDecrement(t, "write_counter", "w_rb2", "failed")
    /\ UNCHANGED <<ltimed, lbefore, lgaveup, lover, lscope>>
    /\ UNCHANGED LOthers

\* release('r'), line 128: read_counter.release() takes the counter lock
RReleaseEnter(t) ==
    /\ LSTakeCounterLock(t, "read_counter", "reading", "rr1")
    /\ lbefore' = [lbefore EXCEPT ![t] = {}]
    /\ lgaveup' = [lgaveup EXCEPT ![t] = {}]
    /\ UNCHANGED <<lover, lscope>>
    /\ UNCHANGED <<locks, counter, ltimed>>
    /\ UNCHANGED LOthers

\* release('r'), line 128: read_counter.release() decrements
RReleaseBody(t) ==
    /\ LSDecrement(t, "read_counter", "rr1", "idle")
    /\ UNCHANGED <<ltimed, lbefore, lgaveup, lover, lscope>>
    /\ UNCHANGED LOthers

\* faulty variant: release('w') leaves no_writers held
WReleaseNoWriters_Keep(t) ==
    /\ lpc[t] = "writing"
    /\ lpc' = [lpc EXCEPT ![t] = "wr1"]
    /\ UNCHANGED <<locks, counter, counter_lock, ltimed, lbefore, lgaveup, lover, lscope>>
    /\ UNCHANGED LOthers

\* release('w'), line 130: self._no_writers.release()
WReleaseNoWriters(t) ==
    /\ lpc[t] = "writing"
    /\ locks' = [locks EXCEPT !["no_writers"] = 0]
    /\ lpc' = [lpc EXCEPT ![t] = "wr1"]
    /\ UNCHANGED <<counter, counter_lock, ltimed, lbefore, lgaveup, lover, lscope>>
    /\ UNCHANGED LOthers

\* release('w'), line 131: write_counter.release() takes the counter lock
WReleaseEnter(t) ==
    /\ LSTakeCounterLock(t, "write_counter", "wr1", "wr2")
    /\ UNCHANGED <<locks, counter, ltimed, lbefore, lgaveup, lover, lscope>>
    /\ UNCHANGED LOthers

\* release('w'), line 131: write_counter.release() decrements
WReleaseBody(t) ==
    /\ LSDecrement(t, "write_counter", "wr2", "idle")
    /\ UNCHANGED <<ltimed, lbefore, lgaveup, lover, lscope>>
    /\ UNCHANGED LOthers

\* ---- RWLock, scoped form: with rw_lock(rw_flag, timeout): ... -----------
\* __call__, line 45: self.acquire(rw_flag, timeout=timeout) is called;
\* calls with a timeout are made one at a time, and none once a counter is
\* MaxUnder below 0
RWScopedCall(t, flag, timed) ==
    /\ lpc[t] = "idle"
    /\ timed =>
         /\ \A s \in {"read_counter", "write_counter"} : counter[s] > -MaxUnder
         /\ \A u \in LThreads : lpc[u] # "idle" => lscope[u] \in {"r", "w"} /\ ~ltimed[u]
    /\ lpc' = [lpc EXCEPT ![t] = IF flag = "r" THEN "r1" ELSE "w1"]
    /\ ltimed' = [ltimed EXCEPT ![t] = timed]
    /\ lbefore' = [lbefore EXCEPT ![t] = IF flag = "r" THEN PendingWriters ELSE {}]
    /\ lscope' = [lscope EXCEPT ![t] = flag]
    /\ UNCHANGED <<locks, counter, counter_lock, lgaveup, lover>>
    /\ UNCHANGED LOthers

\* __call__, lines 45-49: acquire returned False, its result is not looked
\* at, the body runs and `finally` calls release('r'): read_counter.release()
\* takes the counter lock (line 128)
RWScopedFailedR(t) ==
    /\ lscope[t] = "r"
    /\ LSTakeCounterLock(t, "read_counter", "failed", "rr1")
    /\ lscope' = [lscope EXCEPT ![t] = "failed"]
    /\ ltimed' = [ltimed EXCEPT ![t] = FALSE]
    /\ lbefore' = [lbefore EXCEPT ![t] = {}]
    /\ lgaveup' = [lgaveup EXCEPT ![t] = {}]
    /\ UNCHANGED <<locks, counter, lover>>
    /\ UNCHANGED LOthers

\* __call__, lines 45-49, after acquire('w') returned False: `finally` calls
\* release('w'), whose line 130 releases no_writers, locked by someone else
RWScopedFailedW(t) ==
    /\ lscope[t] = "w"
    /\ lpc[t] = "failed"
    /\ locks["no_writers"] # 0
    /\ locks' = [locks EXCEPT !["no_writers"] = 0]
    /\ lpc' = [lpc EXCEPT ![t] = "wr1"]
    /\ lscope' = [lscope EXCEPT ![t] = "failed"]
    /\ ltimed' = [ltimed EXCEPT ![t] = FALSE]
    /\ UNCHANGED <<counter, counter_lock, lbefore, lgaveup, lover>>
    /\ UNCHANGED LOthers

\* the same with no_writers unlocked: Lock.release raises RuntimeError and
\* line 131 is not reached
RWScopedFailedWRaises(t) ==
    /\ lscope[t] = "w"
    /\ lpc[t] = "failed"
    /\ locks["no_writers"] = 0
    /\ lpc' = [lpc EXCEPT ![t] = "scope_raised"]
    /\ lscope' = [lscope EXCEPT ![t] = "failed"]
    /\ ltimed' = [ltimed EXCEPT ![t] = FALSE]
    /\ UNCHANGED <<locks, counter, counter_lock, lbefore, lgaveup, lover>>
    /\ UNCHANGED LOthers

\* the RuntimeError leaves the with statement
RWScopedRaisedReturn(t) ==
    /\ lpc[t] = "scope_raised"
    /\ lpc' = [lpc EXCEPT ![t] = "idle"]
    /\ UNCHANGED <<locks, counter, counter_lock, ltimed, lbefore, lgaveup, lover, lscope>>
    /\ UNCHANGED LOthers

\* ---- RWLock used once by each thread, without timeouts --------------------
\* a thread that has not used the lock calls acquire(rw_flag)
RWCallOnce(t, flag) == RWAcquireCall(t, flag, FALSE)

\* release('r'), line 128, returns: the thread has completed
RReleaseBodyDone(t) ==
    /\ LSDecrement(t, "read_counter", "rr1", "done")
    /\ UNCHANGED <<ltimed, lbefore, lgaveup, lover, lscope>>
    /\ UNCHANGED LOthers

\* release('w'), line 131, returns: the thread has completed
WReleaseBodyDone(t) ==
    /\ LSDecrement(t, "write_counter", "wr2", "done")
    /\ UNCHANGED <<ltimed, lbefore, lgaveup, lover, lscope>>
    /\ UNCHANGED LOthers

\* the steps of thread t from its call of acquire to the return of its
\* release
RWStep(t) ==
    \/ RTakeReadersQueue(t)
    \/ RTakeNoReaders(t)
    \/ RCounterEnter(t)
    \/ RCounterBody(t)
    \/ WCounterEnter(t)
    \/ WCounterBody(t)
    \/ WTakeNoWriters(t)
    \/ RReleaseEnter(t)
    \/ RReleaseBodyDone(t)
    \/ WReleaseNoWriters(t)
    \/ WReleaseEnter(t)
    \/ WReleaseBodyDone(t)

RWOnceNext ==
    \E t \in LThreads :
        \/ \E flag \in {"r", "w"} : RWCallOnce(t, flag)
        \/ RWStep(t)

\* fair scheduling: a thread whose next step stays possible takes it, and
\* a thread that holds the lock releases it
RWFairness == \A t \in LThreads : WF_vars(RWStep(t))

RWNext ==
    \E t \in LThreads :
        \/ \E flag \in {"r", "w"}, timed \in BOOLEAN : RWAcquireCall(t, flag, timed)
        \/ RTakeReadersQueue(t)
        \/ RReadersQueueTimeout(t)
        \/ RTakeNoReaders(t)
        \/ RNoReadersTimeout(t)
        \/ RCounterEnter(t)
        \/ RCounterTimeout(t)
        \/ RCounterBody(t)
        \/ WCounterEnter(t)
        \/ WCounterTimeout(t)
        \/ WCounterBody(t)
        \/ WCounterGuardedTimeout(t)
        \/ WTakeNoWriters(t)
        \/ WNoWritersTimeout(t)
        \/ WRollbackEnter(t)
        \/ WRollbackBody(t)
        \/ RReleaseEnter(t)
        \/ RReleaseBody(t)
        \/ WReleaseNoWriters(t)
        \/ WReleaseEnter(t)
        \/ WReleaseBody(t)
        \/ LReturn(t)

\* every thread uses the scoped form: the steps of acquire and release are
\* those of the direct calls
RWScopedNext ==
    \E t \in LThreads :
        \/ \E flag \in {"r", "w"}, timed \in BOOLEAN : RWScopedCall(t, flag, timed)
        \/ RTakeReadersQueue(t)
        \/ RReadersQueueTimeout(t)
        \/ RTakeNoReaders(t)
        \/ RNoReadersTimeout(t)
        \/ RCounterEnter(t)
        \/ RCounterTimeout(t)
        \/ RCounterBody(t)
        \/ WCounterEnter(t)
        \/ WCounterTimeout(t)
        \/ WCounterBody(t)
        \/ WCounterGuardedTimeout(t)
        \/ WTakeNoWriters(t)
        \/ WNoWritersTimeout(t)
        \/ WRollbackEnter(t)
        \/ WRollbackBody(t)
        \/ RReleaseEnter(t)
        \/ RReleaseBody(t)
        \/ WReleaseNoWriters(t)
        \/ WReleaseEnter(t)
        \/ WReleaseBody(t)
        \/ RWScopedFailedR(t)
        \/ RWScopedFailedW(t)
        \/ RWScopedFailedWRaises(t)
        \/ RWScopedRaisedReturn(t)

\* ========================================================================
\* IndexSemaphore
\* ========================================================================
IThreads == 1..NIThreads

IOthers == <<qvars, lvars, avars, fvars, pvars, tvars>>

\* __init__(val), lines 37-42, for a val > 0: the queue holds 0..val-1
IConstruct(val) ==
    /\ ival = val
    /\ ipool = [i \in 1..ival |-> i - 1]
    /\ ipc = [t \in IThreads |-> "idle"]
    /\ iheld = [t \in IThreads |-> -1]

IInit == \E val \in 1..MaxVal : IConstruct(val)

\* the semaphore as it stays while another component is exercised
IRest == IConstruct(1)

\* faulty variant: acquire reads the head of the queue without removing it
IAcquire_Peek(t) ==
    /\ ipc[t] = "idle"
    /\ ipool # <<>>
    /\ iheld' = [iheld EXCEPT ![t] = Head(ipool)]
    /\ ipc' = [ipc EXCEPT ![t] = "holding"]
    /\ UNCHANGED <<ival, ipool>>
    /\ UNCHANGED IOthers

\* acquire(timeout), line 96: self.queue.get(timeout) returns an index
IAcquire(t) ==
    /\ ipc[t] = "idle"
    /\ ipool # <<>>
    /\ iheld' = [iheld EXCEPT ![t] = Head(ipool)]
    /\ ipool' = Tail(ipool)
    /\ ipc' = [ipc EXCEPT ![t] = "holding"]
    /\ UNCHANGED ival
    /\ UNCHANGED IOthers

\* acquire(timeout), lines 96-98: queue.Empty after the timeout, return None
IAcquireTimeout(t) ==
    /\ ipc[t] = "idle"
    /\ ipool = <<>>
    /\ iheld' = [iheld EXCEPT ![t] = -1]
    /\ ipc' = [ipc EXCEPT ![t] = "none"]
    /\ UNCHANGED <<ival, ipool>>
    /\ UNCHANGED IOthers

\* the caller goes on after a None
IGiveUp(t) ==
    /\ ipc[t] = "none"
    /\ ipc' = [ipc EXCEPT ![t] = "idle"]
    /\ UNCHANGED <<ival, ipool, iheld>>
    /\ UNCHANGED IOthers

\* faulty variant: release appends although the queue is full
IPutNowait_Overfill(t, to) ==
    /\ ipool' = Append(ipool, iheld[t])
    /\ ipc' = [ipc EXCEPT ![t] = to]

\* release(index), lines 114-117, with index = iheld[t]: put_nowait appends
\* unless the queue is full; then the Exception of line 117 is raised
IPutNowait(t, to) ==
    IF Len(ipool) < ival
    THEN /\ ipool' = Append(ipool, iheld[t])
         /\ ipc' = [ipc EXCEPT ![t] = to]
    ELSE /\ ipool' = ipool
         /\ ipc' = [ipc EXCEPT ![t] = "raised"]

\* release(index) by the thread that acquired index
IRelease(t) ==
    /\ ipc[t] = "holding"
    /\ IPutNowait(t, "idle")
    /\ iheld' = [iheld EXCEPT ![t] = -1]
    /\ UNCHANGED ival
    /\ UNCHANGED IOthers

\* the scoped form, line 60: acquire returns an index, which is yielded
IScopedAcquire(t) ==
    /\ ipc[t] = "idle"
    /\ ipool # <<>>
    /\ iheld' = [iheld EXCEPT ![t] = Head(ipool)]
    /\ ipool' = Tail(ipool)
    /\ ipc' = [ipc EXCEPT ![t] = "body"]
    /\ UNCHANGED ival
    /\ UNCHANGED IOthers

\* the scoped form, line 60: acquire times out, None is yielded
IScopedTimeout(t) ==
    /\ ipc[t] = "idle"
    /\ ipool = <<>>
    /\ iheld' = [iheld EXCEPT ![t] = -1]
    /\ ipc' = [ipc EXCEPT ![t] = "body"]
    /\ UNCHANGED <<ival, ipool>>
    /\ UNCHANGED IOthers

\* the body of the with statement ends, lines 61-64: by running to its end
\* ("return") or by an exception ("raise", caught and logged at line 63)
IBodyExit(t, how) ==
    /\ ipc[t] = "body"
    /\ ipc' = [ipc EXCEPT ![t] = IF how = "raise" THEN "except" ELSE "finally"]
    /\ UNCHANGED <<ival, ipool, iheld>>
    /\ UNCHANGED IOthers

\* faulty variant: after an exception in the body the index is not released
IScopedExcept_NoFinally(t) ==
    /\ ipc[t] = "except"
    /\ ipc' = [ipc EXCEPT ![t] = "idle"]
    /\ iheld' = [iheld EXCEPT ![t] = -1]
    /\ UNCHANGED <<ival, ipool>>
    /\ UNCHANGED IOthers

\* lines 63-64: log.error(e)
IScopedExcept(t) ==
    /\ ipc[t] = "except"
    /\ ipc' = [ipc EXCEPT ![t] = "finally"]
    /\ UNCHANGED <<ival, ipool, iheld>>
    /\ UNCHANGED IOthers

\* lines 65-67: release(index) unless index is None
IScopedFinally(t) ==
    /\ ipc[t] = "finally"
    /\ IF iheld[t] # -1
       THEN IPutNowait(t, "idle")
       ELSE /\ ipool' = ipool
            /\ ipc' = [ipc EXCEPT ![t] = "idle"]
    /\ iheld' = [iheld EXCEPT ![t] = -1]
    /\ UNCHANGED ival
    /\ UNCHANGED IOthers

INext ==
    \E t \in IThreads :
        \/ IAcquire(t)
        \/ IAcquireTimeout(t)
        \/ IGiveUp(t)
        \/ IRelease(t)
        \/ IScopedAcquire(t)
        \/ IScopedTimeout(t)
        \/ \E how \in {"return", "raise"} : IBodyExit(t, how)
        \/ IScopedExcept(t)
        \/ IScopedFinally(t)

\* release(index) is called for an index the caller does not hold
IReleaseCall(t, index) ==
    /\ ipc[t] = "idle"
    /\ iheld' = [iheld EXCEPT ![t] = index]
    /\ ipc' = [ipc EXCEPT ![t] = "release"]
    /\ UNCHANGED <<ival, ipool>>
    /\ UNCHANGED IOthers

\* release(index), lines 114-117, for that call
IReleaseNotHeld(t) ==
    /\ ipc[t] = "release"
    /\ IPutNowait(t, "idle")
    /\ iheld' = [iheld EXCEPT ![t] = -1]
    /\ UNCHANGED ival
    /\ UNCHANGED IOthers

\* the caller has seen the Exception of line 117
IReleaseRaised(t) ==
    /\ ipc[t] = "raised"
    /\ ipc' = [ipc EXCEPT ![t] = "idle"]
    /\ UNCHANGED <<ival, ipool, iheld>>
    /\ UNCHANGED IOthers

\* acquire and release called directly, by callers that may also release
\* what they do not hold
IMisuseNext ==
    \E t \in IThreads :
        \/ IAcquire(t)
        \/ IAcquireTimeout(t)
        \/ IGiveUp(t)
        \/ IRelease(t)
        \/ \E index \in 0..(ival - 1) : IReleaseCall(t, index)
        \/ IReleaseNotHeld(t)
        \/ IReleaseRaised(t)

\* ========================================================================
\* Announcement
\* ========================================================================
AThreads == 1..NAThreads
ANodeIds == 1..MaxNodes

AOthers == <<qvars, lvars, ivars, fvars, pvars, tvars>>

\* the maxsize arguments given to subscribe: -1 stands for None
ASubMaxsizes == {-1}

ANoLocals == [self |-> 0, item |-> 0, idx |-> 0, new |-> 0]

\* Announcement(maxsize, backlog), lines 114-131; given is FALSE for
\* backlog=None, else backlog <= 0 asks for an unbounded deque and
\* backlog > 0 for deque(maxlen=backlog)
AConstruct(maxsize, given, backlog) ==
    /\ amaxsize = maxsize
    /\ abacklog_use = given
    /\ abl_maxlen = IF given /\ backlog > 0 THEN backlog ELSE 0
    /\ abacklog = <<>>
    /\ asubs = <<1>>
    /\ anodes = 1
    /\ ahandles = {1}
    /\ aq = [n \in ANodeIds |-> <<>>]
    /\ aqmax = [n \in ANodeIds |-> IF n = 1 THEN maxsize ELSE 0]
    /\ afinal = [n \in ANodeIds |-> FALSE]
    /\ ahasbl = [n \in ANodeIds |-> n = 1 /\ given]
    /\ alock = 0
    /\ apc = [t \in AThreads |-> "idle"]
    /\ aloc = [t \in AThreads |-> ANoLocals]
    /\ aputs = 0
    /\ aputter = <<>>
    /\ adelivered = [n \in ANodeIds |-> <<>>]
    /\ asnap = [n \in ANodeIds |-> <<>>]
    /\ apublished = <<>>
    /\ abase = [n \in ANodeIds |-> <<>>]
    /\ apre = [n \in ANodeIds |-> FALSE]
    /\ afinalized = FALSE

AInit ==
    \E maxsize \in {0, 1}, cfg \in {<<FALSE, 0>>, <<TRUE, 0>>, <<TRUE, 1>>} :
        AConstruct(maxsize, cfg[1], cfg[2])

\* the Announcement as it stays while another component is exercised
ARest == AConstruct(0, FALSE, 0)

\* queue.Queue.put would block / raise queue.Full
AFull(n) == aqmax[n] > 0 /\ Len(aq[n]) >= aqmax[n]

\* faulty variant: a full bounded deque turns the new item away
DequeAppend_KeepOldest(d, x, maxlen) ==
    IF maxlen > 0 /\ Len(d) >= maxlen THEN d ELSE Append(d, x)

\* deque(maxlen).append: the oldest item is dropped from a full bounded deque
DequeAppend(d, x, maxlen) ==
    IF maxlen > 0 /\ Len(d) >= maxlen
    THEN Append(Tail(d), x)
    ELSE Append(d, x)

\* put(item, block, timeout), line 247: `with self.lock:` entered, for the
\* first max put calls
APutEnterUpTo(t, n, max) ==
    /\ apc[t] = "idle"
    /\ alock = 0
    /\ n \in ahandles
    /\ aputs < max
    /\ alock' = t
    /\ aputs' = aputs + 1
    /\ aputter' = Append(aputter, n)
    /\ apc' = [apc EXCEPT ![t] = "put"]
    /\ aloc' = [aloc EXCEPT ![t] =
                  [self |-> n, item |-> aputs + 1, idx |-> 1, new |-> 0]]
    /\ asnap' = adelivered
    /\ UNCHANGED <<amaxsize, abacklog_use, abl_maxlen, abacklog, asubs, anodes, ahandles,
                   aq, aqmax, afinal, ahasbl, adelivered, apublished, abase, apre,
                   afinalized>>
    /\ UNCHANGED AOthers

\* put, line 247, in the specifications that allow MaxPuts put calls
APutEnter(t, n) == APutEnterUpTo(t, n, MaxPuts)

\* APutStep without the `if ann == self: continue` of lines 249-251
APutStep_NoSkip(t) ==
    /\ apc[t] = "put"
    /\ aloc[t].idx <= Len(asubs)
    /\ LET ann == asubs[aloc[t].idx] IN
       /\ ~AFull(ann)
       /\ aq' = [aq EXCEPT ![ann] = Append(@, aloc[t].item)]
       /\ adelivered' = [adelivered EXCEPT ![ann] = Append(@, aloc[t].item)]
    /\ aloc' = [aloc EXCEPT ![t].idx = @ + 1]
    /\ UNCHANGED <<amaxsize, abacklog_use, abl_maxlen, abacklog, asubs, anodes, ahandles,
                   aqmax, afinal, ahasbl, alock, apc, aputs, aputter, asnap, apublished, abase,
                   apre, afinalized>>
    /\ UNCHANGED AOthers

\* put, lines 248-255: one iteration of the loop over self.subscribers
APutStep(t) ==
    /\ apc[t] = "put"
    /\ aloc[t].idx <= Len(asubs)
    /\ LET ann == asubs[aloc[t].idx] IN
       IF ann = aloc[t].self
       THEN UNCHANGED <<aq, adelivered>>
       ELSE /\ ~AFull(ann)
            /\ aq' = [aq EXCEPT ![ann] = Append(@, aloc[t].item)]
            /\ adelivered' = [adelivered EXCEPT ![ann] = Append(@, aloc[t].item)]
    /\ aloc' = [aloc EXCEPT ![t].idx = @ + 1]
    /\ UNCHANGED <<amaxsize, abacklog_use, abl_maxlen, abacklog, asubs, anodes, ahandles,
                   aqmax, afinal, ahasbl, alock, apc, aputs, aputter, asnap, apublished, abase,
                   apre, afinalized>>
    /\ UNCHANGED AOthers

\* put, line 255: ann.q.put raises queue.Full, at once when the call is
\* non-blocking and when its timeout runs out otherwise (a call with
\* block=True and no timeout only waits); the with block releases the lock
APutFull(t) ==
    /\ apc[t] = "put"
    /\ aloc[t].idx <= Len(asubs)
    /\ asubs[aloc[t].idx] # aloc[t].self
    /\ AFull(asubs[aloc[t].idx])
    /\ alock' = 0
    /\ apc' = [apc EXCEPT ![t] = "idle"]
    /\ aloc' = [aloc EXCEPT ![t] = ANoLocals]
    /\ asnap' = [n \in ANodeIds |-> <<>>]
    /\ UNCHANGED <<amaxsize, abacklog_use, abl_maxlen, abacklog, asubs, anodes, ahandles,
                   aq, aqmax, afinal, ahasbl, aputs, aputter, adelivered, apublished,
                   abase, apre, afinalized>>
    /\ UNCHANGED AOthers

\* put, lines 256-257: after the loop
APutFinish(t) ==
    /\ apc[t] = "put"
    /\ aloc[t].idx > Len(asubs)
    /\ abacklog' = IF abacklog_use /\ ~afinal[aloc[t].self]
                   THEN DequeAppend(abacklog, aloc[t].item, abl_maxlen)
                   ELSE abacklog
    /\ apublished' = Append(apublished, aloc[t].item)
    /\ apc' = [apc EXCEPT ![t] = "put_exit"]
    /\ UNCHANGED <<amaxsize, abacklog_use, abl_maxlen, asubs, anodes, ahandles, aq, aqmax,
                   afinal, ahasbl, alock, aloc, aputs, aputter, adelivered, asnap, abase, apre,
                   afinalized>>
    /\ UNCHANGED AOthers

\* put: the with block is left, put returns
APutExit(t) ==
    /\ apc[t] = "put_exit"
    /\ alock' = 0
    /\ apc' = [apc EXCEPT ![t] = "idle"]
    /\ aloc' = [aloc EXCEPT ![t] = ANoLocals]
    /\ asnap' = [n \in ANodeIds |-> <<>>]
    /\ UNCHANGED <<amaxsize, abacklog_use, abl_maxlen, abacklog, asubs, anodes, ahandles,
                   aq, aqmax, afinal, ahasbl, aputs, aputter, adelivered, apublished,
                   abase, apre, afinalized>>
    /\ UNCHANGED AOthers

\* faulty variant: get takes the item put last
AGet_Lifo(t, n) ==
    /\ apc[t] = "idle"
    /\ n \in ahandles
    /\ aq[n] # <<>>
    /\ aq' = [aq EXCEPT ![n] = SubSeq(@, 1, Len(@) - 1)]
    /\ UNCHANGED <<amaxsize, abacklog_use, abl_maxlen, abacklog, asubs, anodes, ahandles,
                   aqmax, afinal, ahasbl, alock, apc, aloc, aputs, aputter, adelivered,
                   asnap, apublished, abase, apre, afinalized>>
    /\ UNCHANGED AOthers

\* get(), line 281, on a non-empty queue
AGet(t, n) ==
    /\ apc[t] = "idle"
    /\ n \in ahandles
    /\ aq[n] # <<>>
    /\ aq' = [aq EXCEPT ![n] = Tail(@)]
    /\ UNCHANGED <<amaxsize, abacklog_use, abl_maxlen, abacklog, asubs, anodes, ahandles,
                   aqmax, afinal, ahasbl, alock, apc, aloc, aputs, aputter, adelivered, asnap,
                   apublished, abase, apre, afinalized>>
    /\ UNCHANGED AOthers

\* subscribe(q, maxsize, block, timeout), lines 309-320: `with self.lock:`
\* entered on a node that is not final; the clone gets a new queue of size
\* maxsize (-1 stands for None: the family's maxsize) and is appended
ASubscribeEnter(t, n, maxsize) ==
    /\ apc[t] = "idle"
    /\ alock = 0
    /\ n \in ahandles
    /\ anodes < MaxNodes
    /\ ~afinal[n]
    /\ LET new == anodes + 1 IN
       /\ anodes' = new
       /\ aqmax' = [aqmax EXCEPT ![new] = IF maxsize < 0 THEN amaxsize ELSE maxsize]
       /\ ahasbl' = [ahasbl EXCEPT ![new] = ahasbl[n]]
       /\ asubs' = Append(asubs, new)
       /\ aloc' = [aloc EXCEPT ![t] =
                     [self |-> n, item |-> 0, idx |-> 1, new |-> new]]
       /\ apre' = [apre EXCEPT ![new] = abacklog_use /\ abl_maxlen = 0 /\ ~afinalized]
       /\ abase' = [abase EXCEPT ![new] =
                      IF abacklog_use /\ abl_maxlen = 0 /\ ~afinalized
                      THEN apublished ELSE <<>>]
    /\ alock' = t
    /\ apc' = [apc EXCEPT ![t] = "sub"]
    /\ UNCHANGED <<amaxsize, abacklog_use, abl_maxlen, abacklog, ahandles, aq, afinal,
                   aputs, aputter, adelivered, asnap, apublished, afinalized>>
    /\ UNCHANGED AOthers

\* subscribe, lines 309-312: the node is final: SubscribeFinalizedError is
\* raised and the lock released, nothing has changed
ASubscribeFinalized(t, n) ==
    /\ apc[t] = "idle"
    /\ alock = 0
    /\ n \in ahandles
    /\ afinal[n]
    /\ UNCHANGED <<amaxsize, abacklog_use, abl_maxlen, abacklog, asubs, anodes, ahandles,
                   aq, aqmax, afinal, ahasbl, alock, apc, aloc, aputs, aputter, adelivered, asnap,
                   apublished, abase, apre, afinalized>>
    /\ UNCHANGED AOthers

\* AReplay with the backlog walked from its newest item to its oldest
AReplay_Reversed ==
    IF abacklog_use
    THEN [i \in 1..Len(abacklog) |-> abacklog[Len(abacklog) + 1 - i]]
    ELSE <<>>

\* AReplay without the newest item of the backlog
AReplay_DropNewest ==
    IF abacklog_use /\ abacklog # <<>>
    THEN SubSeq(abacklog, 1, Len(abacklog) - 1)
    ELSE <<>>

\* the items subscribe replays: lines 321-322
AReplay == IF abacklog_use THEN abacklog ELSE <<>>

\* subscribe, line 323: one q.put(x) of the replay loop
ASubscribeStep(t) ==
    /\ apc[t] = "sub"
    /\ aloc[t].idx <= Len(AReplay)
    /\ ~AFull(aloc[t].new)
    /\ aq' = [aq EXCEPT ![aloc[t].new] = Append(@, AReplay[aloc[t].idx])]
    /\ adelivered' = [adelivered EXCEPT ![aloc[t].new] = Append(@, AReplay[aloc[t].idx])]
    /\ aloc' = [aloc EXCEPT ![t].idx = @ + 1]
    /\ UNCHANGED <<amaxsize, abacklog_use, abl_maxlen, abacklog, asubs, anodes, ahandles,
                   aqmax, afinal, ahasbl, alock, apc, aputs, aputter, asnap, apublished, abase,
                   apre, afinalized>>
    /\ UNCHANGED AOthers

\* subscribe, line 323: q.put raises queue.Full (non-blocking call, or the
\* timeout ran out); the lock is released, the new node stays in the
\* subscribers deque and is not returned
ASubscribeFull(t) ==
    /\ apc[t] = "sub"
    /\ aloc[t].idx <= Len(AReplay)
    /\ AFull(aloc[t].new)
    /\ alock' = 0
    /\ apc' = [apc EXCEPT ![t] = "idle"]
    /\ aloc' = [aloc EXCEPT ![t] = ANoLocals]
    /\ UNCHANGED <<amaxsize, abacklog_use, abl_maxlen, abacklog, asubs, anodes, ahandles,
                   aq, aqmax, afinal, ahasbl, aputs, aputter, adelivered, asnap, apublished,
                   abase, apre, afinalized>>
    /\ UNCHANGED AOthers

\* subscribe, line 324: the replay is over; the with block is still held
ASubscribeFinish(t) ==
    /\ apc[t] = "sub"
    /\ aloc[t].idx > Len(AReplay)
    /\ apc' = [apc EXCEPT ![t] = "sub_exit"]
    /\ UNCHANGED <<amaxsize, abacklog_use, abl_maxlen, abacklog, asubs, anodes, ahandles,
                   aq, aqmax, afinal, ahasbl, alock, aloc, aputs, aputter, adelivered, asnap,
                   apublished, abase, apre, afinalized>>
    /\ UNCHANGED AOthers

\* subscribe, line 324: the lock is released and the new node returned
ASubscribeExit(t) ==
    /\ apc[t] = "sub_exit"
    /\ alock' = 0
    /\ ahandles' = ahandles \cup {aloc[t].new}
    /\ apc' = [apc EXCEPT ![t] = "idle"]
    /\ aloc' = [aloc EXCEPT ![t] = ANoLocals]
    /\ UNCHANGED <<amaxsize, abacklog_use, abl_maxlen, abacklog, asubs, anodes, aq, aqmax,
                   afinal, ahasbl, aputs, aputter, adelivered, asnap, apublished, abase, apre,
                   afinalized>>
    /\ UNCHANGED AOthers

\* unsubscribe(q), lines 340-341: self.subscribers.remove(q) under the lock
\* (ValueError, nothing changed, when q is not in the deque)
AUnsubscribe(t, n, target) ==
    /\ apc[t] = "idle"
    /\ alock = 0
    /\ n \in ahandles
    /\ target \in ahandles
    /\ asubs' = IF target \in Range(asubs) THEN RemoveFirst(asubs, target) ELSE asubs
    /\ UNCHANGED <<amaxsize, abacklog_use, abl_maxlen, abacklog, anodes, ahandles, aq,
                   aqmax, afinal, ahasbl, alock, apc, aloc, aputs, aputter, adelivered, asnap,
                   apublished, abase, apre, afinalized>>
    /\ UNCHANGED AOthers

\* finalize(), lines 351-355: every node in the subscribers deque gets
\* final = True and backlog = None
AFinalize(t, n) ==
    /\ apc[t] = "idle"
    /\ alock = 0
    /\ n \in ahandles
    /\ afinal' = [m \in ANodeIds |-> IF m \in Range(asubs) THEN TRUE ELSE afinal[m]]
    /\ ahasbl' = [m \in ANodeIds |-> IF m \in Range(asubs) THEN FALSE ELSE ahasbl[m]]
    /\ afinalized' = TRUE
    /\ UNCHANGED <<amaxsize, abacklog_use, abl_maxlen, abacklog, asubs, anodes, ahandles,
                   aq, aqmax, alock, apc, aloc, aputs, aputter, adelivered, asnap, apublished,
                   abase, apre>>
    /\ UNCHANGED AOthers

ANext ==
    \E t \in AThreads :
        \/ \E n \in ANodeIds : APutEnter(t, n)
        \/ APutStep(t)
        \/ APutFull(t)
        \/ APutFinish(t)
        \/ APutExit(t)
        \/ \E n \in ANodeIds : AGet(t, n)
        \/ \E n \in ANodeIds, maxsize \in ASubMaxsizes : ASubscribeEnter(t, n, maxsize)
        \/ \E n \in ANodeIds : ASubscribeFinalized(t, n)
        \/ ASubscribeStep(t)
        \/ ASubscribeFull(t)
        \/ ASubscribeFinish(t)
        \/ ASubscribeExit(t)
        \/ \E n, target \in ANodeIds : AUnsubscribe(t, n, target)
        \/ \E n \in ANodeIds : AFinalize(t, n)

\* put, get and subscribe only, with MaxFifoPuts put calls
AFifoNext ==
    \E t \in AThreads :
        \/ \E n \in ANodeIds : APutEnterUpTo(t, n, MaxFifoPuts)
        \/ APutStep(t)
        \/ APutFinish(t)
        \/ APutExit(t)
        \/ \E n \in ANodeIds : AGet(t, n)
        \/ \E n \in ANodeIds, maxsize \in ASubMaxsizes : ASubscribeEnter(t, n, maxsize)
        \/ ASubscribeStep(t)
        \/ ASubscribeFinish(t)
        \/ ASubscribeExit(t)

\* an Announcement with unbounded queues: without a backlog, with an
\* unbounded one, or with one bounded to MaxFifoPuts - 1 items
AFifoInit ==
    \E cfg \in {<<FALSE, 0>>, <<TRUE, 0>>, <<TRUE, MaxFifoPuts - 1>>} :
        AConstruct(0, cfg[1], cfg[2])

\* ========================================================================
\* Funnel
\* ========================================================================
FThreads == 1..NFThreads
FNodeIds == 0..MaxMembers
JIds == 1..NJobs

FOthers == <<qvars, lvars, ivars, avars, pvars, tvars>>

FNoLocals == [self |-> 0, item |-> 0, jid |-> 0]

\* FunnelElement(), lines 31-42: item=None (0 here), complete=False
FunnelElement == [item |-> 0, complete |-> FALSE]

\* Funnel(), lines 83-87
FInit ==
    /\ fsubs = <<>>
    /\ fmembers = 0
    /\ findex = [n \in FNodeIds |-> -1]
    /\ fhandles = {0}
    /\ fd = [j \in {} |-> <<>>]
    /\ fq = <<>>
    /\ flock = 0
    /\ fpc = [t \in FThreads |-> "idle"]
    /\ floc = [t \in FThreads |-> FNoLocals]
    /\ fputs = 0
    /\ fcontrib = [j \in JIds |-> {}]
    /\ fitem = [j \in JIds |-> [m \in FNodeIds |-> 0]]

\* subscribe() -> _clone, lines 107-110: `with new_funnel.lock:` entered
FSubscribeEnter(t, n) ==
    /\ fpc[t] = "idle"
    /\ flock = 0
    /\ n \in fhandles
    /\ fmembers < MaxMembers
    /\ flock' = t
    /\ fpc' = [fpc EXCEPT ![t] = "sub_cs"]
    /\ floc' = [floc EXCEPT ![t] = [self |-> n, item |-> 0, jid |-> 0]]
    /\ UNCHANGED <<fsubs, fmembers, findex, fhandles, fd, fq, fputs, fcontrib, fitem>>
    /\ UNCHANGED FOthers

\* faulty variant: _clone takes the index after appending the new member
FSubscribeBody_IndexAfterAppend(t) ==
    /\ fpc[t] = "sub_cs"
    /\ LET new == fmembers + 1 IN
       /\ fmembers' = new
       /\ findex' = [findex EXCEPT ![new] = Len(fsubs) + 1]
       /\ fsubs' = Append(fsubs, new)
       /\ fhandles' = fhandles \cup {new}
    /\ flock' = 0
    /\ fpc' = [fpc EXCEPT ![t] = "idle"]
    /\ floc' = [floc EXCEPT ![t] = FNoLocals]
    /\ UNCHANGED <<fd, fq, fputs, fcontrib, fitem>>
    /\ UNCHANGED FOthers

\* _clone, lines 111-118: index = len(funnel), append, return the new member
FSubscribeBody(t) ==
    /\ fpc[t] = "sub_cs"
    /\ LET new == fmembers + 1 IN
       /\ fmembers' = new
       /\ findex' = [findex EXCEPT ![new] = Len(fsubs)]
       /\ fsubs' = Append(fsubs, new)
       /\ fhandles' = fhandles \cup {new}
    /\ flock' = 0
    /\ fpc' = [fpc EXCEPT ![t] = "idle"]
    /\ floc' = [floc EXCEPT ![t] = FNoLocals]
    /\ UNCHANGED <<fd, fq, fputs, fcontrib, fitem>>
    /\ UNCHANGED FOthers

\* faulty variant: put on the funnel of the constructor goes on to the lock
FPutTop_Proceeds(t, n) ==
    /\ fpc[t] = "idle"
    /\ n \in fhandles
    /\ findex[n] < 0
    /\ flock = 0
    /\ flock' = t
    /\ fputs' = fputs + 1
    /\ fpc' = [fpc EXCEPT ![t] = "put_cs"]
    /\ floc' = [floc EXCEPT ![t] = [self |-> n, item |-> fputs + 1, jid |-> 1]]
    /\ UNCHANGED <<fsubs, fmembers, findex, fhandles, fd, fq, fcontrib, fitem>>
    /\ UNCHANGED FOthers

\* put, lines 171-172: self.index < 0, FunnelPutTopError is raised
FPutTop(t, n) ==
    /\ fpc[t] = "idle"
    /\ n \in fhandles
    /\ findex[n] < 0
    /\ fpc' = [fpc EXCEPT ![t] = "top_error"]
    /\ floc' = [floc EXCEPT ![t] = [self |-> n, item |-> 0, jid |-> 0]]
    /\ UNCHANGED <<fsubs, fmembers, findex, fhandles, fd, fq, flock, fputs, fcontrib, fitem>>
    /\ UNCHANGED FOthers

\* the caller has seen the FunnelPutTopError
FPutTopRaised(t) ==
    /\ fpc[t] = "top_error"
    /\ fpc' = [fpc EXCEPT ![t] = "idle"]
    /\ floc' = [floc EXCEPT ![t] = FNoLocals]
    /\ UNCHANGED <<fsubs, fmembers, findex, fhandles, fd, fq, flock, fputs, fcontrib, fitem>>
    /\ UNCHANGED FOthers

\* put(item, jid), line 174: the lock is acquired
FPutEnter(t, n, jid) ==
    /\ fpc[t] = "idle"
    /\ n \in fhandles
    /\ findex[n] >= 0
    /\ flock = 0
    /\ fputs < MaxFPuts
    /\ flock' = t
    /\ fputs' = fputs + 1
    /\ fpc' = [fpc EXCEPT ![t] = "put_cs"]
    /\ floc' = [floc EXCEPT ![t] = [self |-> n, item |-> fputs + 1, jid |-> jid]]
    /\ UNCHANGED <<fsubs, fmembers, findex, fhandles, fd, fq, fcontrib, fitem>>
    /\ UNCHANGED FOthers

\* put, lines 174-175: the lock is held by another thread and the call is
\* non-blocking or its timeout runs out: put returns False
FPutLockFail(t, n) ==
    /\ fpc[t] = "idle"
    /\ n \in fhandles
    /\ findex[n] >= 0
    /\ flock # 0
    /\ UNCHANGED fvars
    /\ UNCHANGED FOthers

\* `any` where line 190 says `all`
FAllComplete_Any(arr) == \E i \in 1..Len(arr) : arr[i].complete

\* line 190: all([elem.complete for elem in self.d[jid]])
FAllComplete(arr) == \A i \in 1..Len(arr) : arr[i].complete

\* line 192: tuple([jid,] + [elem.item for elem in self.d[jid]])
FTuple(jid, arr) == <<jid>> \o [i \in 1..Len(arr) |-> arr[i].item]

\* FSlots with the item stored in the first slot that is still empty instead
\* of the slot self.index
FSlots_Arrival(n, item, jid) ==
    LET cur    == IF jid \in DOMAIN fd THEN fd[jid] ELSE <<>>
        padded == cur \o [i \in 1..(Len(fsubs) - Len(cur)) |-> FunnelElement]
        free   == {i \in 1..Len(padded) : ~padded[i].complete}
        slot   == IF free = {} THEN findex[n] + 1
                  ELSE CHOOSE i \in free : \A k \in free : i <= k
    IN  [padded EXCEPT ![slot] = [item |-> item, complete |-> TRUE]]

\* faulty variant: the deque of a job that exists is not grown to len(self)
FSlots_NoGrow(n, item, jid) ==
    LET cur    == IF jid \in DOMAIN fd THEN fd[jid] ELSE <<>>
        padded == IF cur = <<>> \/ findex[n] + 1 > Len(cur)
                  THEN cur \o [i \in 1..(Len(fsubs) - Len(cur)) |-> FunnelElement]
                  ELSE cur
    IN  [padded EXCEPT ![findex[n] + 1] = [item |-> item, complete |-> TRUE]]

\* lines 178-187: the deque of jid, created when missing, grown to len(self)
\* elements, with the slot of member n set to item
FSlots(n, item, jid) ==
    LET cur    == IF jid \in DOMAIN fd THEN fd[jid] ELSE <<>>
        padded == cur \o [i \in 1..(Len(fsubs) - Len(cur)) |-> FunnelElement]
    IN  [padded EXCEPT ![findex[n] + 1] = [item |-> item, complete |-> TRUE]]

\* faulty variant: the completing put leaves the job's entry in the dict
FPutBody_KeepEntry(t) ==
    /\ fpc[t] = "put_cs"
    /\ LET n   == floc[t].self
           jid == floc[t].jid
           arr == FSlots(n, floc[t].item, jid)
           done == fcontrib[jid] \cup {n}
       IN  /\ IF FAllComplete(arr)
              THEN /\ fq' = Append(fq, FTuple(jid, arr))
                   /\ fd' = [j \in DOMAIN fd \cup {jid} |->
                                IF j = jid THEN arr ELSE fd[j]]
              ELSE /\ fq' = fq
                   /\ fd' = [j \in DOMAIN fd \cup {jid} |->
                                IF j = jid THEN arr ELSE fd[j]]
           /\ fcontrib' = [fcontrib EXCEPT ![jid] =
                              IF Range(fsubs) \subseteq done THEN {} ELSE done]
           /\ fitem' = [fitem EXCEPT ![jid] =
                           IF Range(fsubs) \subseteq done
                           THEN [m \in FNodeIds |-> 0]
                           ELSE [@ EXCEPT ![n] = floc[t].item]]
    /\ flock' = 0
    /\ fpc' = [fpc EXCEPT ![t] = "idle"]
    /\ floc' = [floc EXCEPT ![t] = FNoLocals]
    /\ UNCHANGED <<fsubs, fmembers, findex, fhandles, fputs>>
    /\ UNCHANGED FOthers

\* put, lines 177-196
FPutBody(t) ==
    /\ fpc[t] = "put_cs"
    /\ LET n   == floc[t].self
           jid == floc[t].jid
           arr == FSlots(n, floc[t].item, jid)
           done == fcontrib[jid] \cup {n}
       IN  /\ IF FAllComplete(arr)
              THEN /\ fq' = Append(fq, FTuple(jid, arr))
                   /\ fd' = [j \in DOMAIN fd \ {jid} |-> fd[j]]
              ELSE /\ fq' = fq
                   /\ fd' = [j \in DOMAIN fd \cup {jid} |->
                                IF j = jid THEN arr ELSE fd[j]]
           /\ fcontrib' = [fcontrib EXCEPT ![jid] =
                              IF Range(fsubs) \subseteq done THEN {} ELSE done]
           /\ fitem' = [fitem EXCEPT ![jid] =
                           IF Range(fsubs) \subseteq done
                           THEN [m \in FNodeIds |-> 0]
                           ELSE [@ EXCEPT ![n] = floc[t].item]]
    /\ flock' = 0
    /\ fpc' = [fpc EXCEPT ![t] = "idle"]
    /\ floc' = [floc EXCEPT ![t] = FNoLocals]
    /\ UNCHANGED <<fsubs, fmembers, findex, fhandles, fputs>>
    /\ UNCHANGED FOthers

\* get(), line 225, on a non-empty queue
FGet(t, n) ==
    /\ fpc[t] = "idle"
    /\ n \in fhandles
    /\ fq # <<>>
    /\ fq' = Tail(fq)
    /\ UNCHANGED <<fsubs, fmembers, findex, fhandles, fd, flock, fpc, floc, fputs, fcontrib,
                   fitem>>
    /\ UNCHANGED FOthers

FNext ==
    \E t \in FThreads :
        \/ \E n \in FNodeIds : FSubscribeEnter(t, n)
        \/ FSubscribeBody(t)
        \/ \E n \in FNodeIds : FPutTop(t, n)
        \/ FPutTopRaised(t)
        \/ \E n \in FNodeIds, jid \in JIds : FPutEnter(t, n, jid)
        \/ \E n \in FNodeIds : FPutLockFail(t, n)
        \/ FPutBody(t)
        \/ \E n \in FNodeIds : FGet(t, n)

\* ========================================================================
\* Process worker pool
\* ========================================================================
PJobIds == 1..MaxJobs

POthers == <<qvars, lvars, ivars, avars, fvars, tvars>>

\* the views of one decorated callable
PViews == {"desc", "inst"}

\* ScatterGatherDescriptor.__init__ / ScatterGatherCallable.__init__,
\* lines 50-58 and 111-118, for process(n_workers) with n the effective
\* worker count of line 237 (0 when LOX_DEBUG is set)
PConstruct(n) ==
    /\ pexecutor = "none"
    /\ ppending = <<>>
    /\ pjob = [j \in PJobIds |-> "none"]
    /\ pfails = [j \in PJobIds |-> FALSE]
    /\ ptqdm_pre_update = 0
    /\ ppc = "idle"
    /\ plast = "none"
    /\ presult = <<>>
    /\ praised = 0
    /\ pissued = <<>>
    /\ pold = {}
    /\ pfinished = <<>>
    /\ phadraise = FALSE
    /\ pn_workers = n
    /\ pdescexec = TRUE
    /\ pview = "desc"
    /\ pjobview = [j \in PJobIds |-> "none"]
    /\ ptqdm = 0
    /\ pbar = <<>>
    /\ pcurbar = 0

PInit == \E n \in {0, NPWorkers} : PConstruct(n)

\* the pool facade as it stays while another component is exercised
PRest == PConstruct(NPWorkers)

\* the next job id: jobs are numbered in the order of the scatter calls
PNextJob == Cardinality({j \in PJobIds : pjob[j] # "none"}) + 1

\* __get__, lines 147-152: the callable made for an instance gets the
\* descriptor's _executor, which is the shared list or None; the descriptor
\* itself calls _base_callable, which keeps the list (lines 116-118, 163, 168)
PHasList(v) == v = "desc" \/ pdescexec

\* ScatterGatherDescriptor.__len__, lines 140-145
PLen == Cardinality({i \in 1..Len(ppending) : pjob[ppending[i]] \in {"queued", "running"}})

\* scatter(*args) through view v, lines 66-86, with no pool or a running
\* pool: the pool is created when missing, the call submitted and its handle
\* appended
PScatter(v, fails) ==
    /\ ppc = "idle"
    /\ PHasList(v)
    /\ pexecutor \in {"none", "open"}
    /\ pexecutor = "none" => pn_workers > 0
    /\ PNextJob <= MaxJobs
    /\ LET j == PNextJob IN
       /\ pjob' = [pjob EXCEPT ![j] = "queued"]
       /\ pfails' = [pfails EXCEPT ![j] = fails]
       /\ ppending' = Append(ppending, j)
       /\ pissued' = Append(pissued, j)
       /\ pjobview' = [pjobview EXCEPT ![j] = v]
    /\ pexecutor' = "open"
    /\ pfinished' = IF ppending = <<>> THEN <<>> ELSE pfinished
    /\ plast' = "scatter"
    /\ presult' = <<>>
    /\ praised' = 0
    /\ pview' = v
    /\ UNCHANGED <<ptqdm_pre_update, ppc, pold, phadraise, pn_workers, pdescexec, ptqdm,
                   pbar, pcurbar>>
    /\ UNCHANGED POthers

\* a scatter that raises before line 84: nothing but the outcome changes
PScatterRaises(v, outcome) ==
    /\ ppc = "idle"
    /\ plast' = outcome
    /\ presult' = <<>>
    /\ praised' = 0
    /\ pview' = v
    /\ UNCHANGED <<pexecutor, ppending, pjob, pfails, ptqdm_pre_update, ppc, pissued,
                   pold, pfinished, phadraise, pn_workers, pdescexec, pjobview, ptqdm,
                   pbar, pcurbar>>
    /\ UNCHANGED POthers

\* scatter, lines 69-83, when _executor[0] is a pool that was closed:
\* apply_async raises ValueError (pool not running) before line 84
PScatterClosed(v) ==
    /\ PHasList(v)
    /\ pexecutor = "closed"
    /\ PScatterRaises(v, "scatter_error")

\* scatter, line 69, through an instance view made after the descriptor's
\* _executor became None: None[0] raises TypeError
PScatterNoList(v) ==
    /\ ~PHasList(v)
    /\ PScatterRaises(v, "scatter_type_error")

\* scatter, line 71, with n_workers = 0: Pool(0) raises ValueError (the
\* number of processes must be at least 1); _executor[0] stays None
PScatterNoWorkers(v) ==
    /\ PHasList(v)
    /\ pexecutor = "none"
    /\ pn_workers = 0
    /\ PScatterRaises(v, "scatter_pool_error")

\* a pool process takes the oldest queued job
PStart(j) ==
    /\ pjob[j] = "queued"
    /\ \A k \in PJobIds : pjob[k] = "queued" => j <= k
    /\ Cardinality({k \in PJobIds : pjob[k] = "running"}) < pn_workers
    /\ pjob' = [pjob EXCEPT ![j] = "running"]
    /\ UNCHANGED <<pexecutor, ppending, pfails, ptqdm_pre_update, ppc, plast, presult,
                   praised, pissued, pold, pfinished, phadraise, pn_workers, pdescexec,
                   pview, pjobview, ptqdm, pbar, pcurbar>>
    /\ UNCHANGED POthers

\* faulty variant: the callback always counts in _tqdm_pre_update
PCallback_PreOnly(j) ==
    /\ ptqdm_pre_update' = IF pjobview[j] = "desc"
                            THEN ptqdm_pre_update + 1 ELSE ptqdm_pre_update
    /\ pbar' = pbar

\* callback, lines 73-79, of a job that returned, run by the pool's result
\* thread for the callable the job was scattered through: _base_callable
\* for the descriptor; for an instance view the callable __get__ made for
\* that one attribute access, whose _tqdm is None and whose
\* _tqdm_pre_update no other callable reads
PCallback(j) ==
    IF pjobview[j] = "desc"
    THEN IF ptqdm # 0
         THEN /\ pbar' = [pbar EXCEPT ![ptqdm] = @ + 1]
              /\ ptqdm_pre_update' = ptqdm_pre_update
         ELSE /\ ptqdm_pre_update' = ptqdm_pre_update + 1
              /\ pbar' = pbar
    ELSE /\ ptqdm_pre_update' = ptqdm_pre_update
         /\ pbar' = pbar

\* the job returns or raises; on a return the pool runs callback
PFinish(j) ==
    /\ pjob[j] = "running"
    /\ pjob' = [pjob EXCEPT ![j] = IF pfails[j] THEN "err" ELSE "ok"]
    /\ IF pfails[j] THEN UNCHANGED <<ptqdm_pre_update, pbar>> ELSE PCallback(j)
    /\ pfinished' = Append(pfinished, j)
    /\ UNCHANGED <<pexecutor, ppending, pfails, ppc, plast, presult, praised, pissued,
                   pold, phadraise, pn_workers, pdescexec, pview, pjobview, ptqdm, pcurbar>>
    /\ UNCHANGED POthers

\* gather(tqdm=...), lines 89-100, through view v; progress tells whether a
\* progress object is given (tqdm=True makes a new one, line 94): the
\* object becomes self._tqdm and is updated with self._tqdm_pre_update; for
\* an instance view self is a new callable, whose _tqdm_pre_update is 0
PGatherProgress(v, progress) ==
    IF progress
    THEN /\ Len(pbar) < MaxBars
         /\ pcurbar' = Len(pbar) + 1
         /\ pbar' = Append(pbar, IF v = "desc" THEN ptqdm_pre_update ELSE 0)
         /\ ptqdm' = IF v = "desc" THEN Len(pbar) + 1 ELSE ptqdm
    ELSE /\ pcurbar' = 0
         /\ UNCHANGED <<pbar, ptqdm>>

\* a gather that raises at line 102
PGatherRaises(v, progress, outcome) ==
    /\ ppc = "idle"
    /\ PGatherProgress(v, progress)
    /\ plast' = outcome
    /\ presult' = <<>>
    /\ praised' = 0
    /\ pview' = v
    /\ UNCHANGED <<pexecutor, ppending, pjob, pfails, ptqdm_pre_update, ppc, pissued,
                   pold, pfinished, phadraise, pn_workers, pdescexec, pjobview>>
    /\ UNCHANGED POthers

\* gather(), line 102, when _executor[0] is None: AttributeError
PGatherNoPool(v, progress) ==
    /\ PHasList(v)
    /\ pexecutor = "none"
    /\ PGatherRaises(v, progress, "gather_error")

\* gather(), line 102, through an instance view made after the descriptor's
\* _executor became None: None[0] raises TypeError
PGatherNoList(v, progress) ==
    /\ ~PHasList(v)
    /\ PGatherRaises(v, progress, "gather_type_error")

\* gather(), lines 89-103: the progress object is set up, close(), then
\* join() begins
PGatherClose(v, progress) ==
    /\ ppc = "idle"
    /\ PHasList(v)
    /\ pexecutor \in {"open", "closed"}
    /\ PGatherProgress(v, progress)
    /\ pexecutor' = "closed"
    /\ ppc' = "join"
    /\ plast' = "running"
    /\ presult' = <<>>
    /\ praised' = 0
    /\ pview' = v
    /\ UNCHANGED <<ppending, pjob, pfails, ptqdm_pre_update, pissued, pold, pfinished,
                   phadraise, pn_workers, pdescexec, pjobview>>
    /\ UNCHANGED POthers

\* the jobs of the handles x.get() raises on, in the order of _pending
PFailed == SelectSeq(ppending, LAMBDA j : pjob[j] = "err")

\* PGatherFetch without the self._pending.clear() of line 105
PGatherFetch_NoClear ==
    /\ ppc = "join"
    /\ \A j \in PJobIds : pjob[j] \notin {"queued", "running"}
    /\ ppc' = "idle"
    /\ IF PFailed # <<>>
       THEN /\ plast' = "gather_raised"
            /\ praised' = PFailed[1]
            /\ phadraise' = TRUE
            /\ UNCHANGED <<pexecutor, ppending, presult, pissued, pold, pdescexec>>
       ELSE /\ plast' = "gather"
            /\ presult' = ppending
            /\ ppending' = ppending
            /\ pexecutor' = "none"
            /\ pissued' = <<>>
            /\ pold' = pold \cup Range(ppending)
            /\ pdescexec' = (pdescexec /\ pview # "desc")
            /\ UNCHANGED <<praised, phadraise>>
    /\ UNCHANGED <<pjob, pfails, ptqdm_pre_update, pfinished, pn_workers, pview, pjobview,
                   ptqdm, pbar, pcurbar>>
    /\ UNCHANGED POthers

\* faulty variant: ScatterGatherDescriptor.gather without line 169
PDescExecAfterGather_Kept(v) == pdescexec

\* ScatterGatherDescriptor.gather, lines 168-169: after _base_callable.gather
\* has returned, the descriptor sets its own _executor to None; a gather
\* through an instance view (lines 88-107 only) leaves it alone
PDescExecAfterGather(v) == pdescexec /\ v # "desc"

\* gather(), lines 103-107: join() returns once every job has finished; the
\* results are fetched in the order of _pending; the first handle of a failed
\* job raises its exception out of gather, before lines 105-106
PGatherFetch ==
    /\ ppc = "join"
    /\ \A j \in PJobIds : pjob[j] \notin {"queued", "running"}
    /\ ppc' = "idle"
    /\ IF PFailed # <<>>
       THEN /\ plast' = "gather_raised"
            /\ praised' = PFailed[1]
            /\ phadraise' = TRUE
            /\ UNCHANGED <<pexecutor, ppending, presult, pissued, pold, pdescexec>>
       ELSE /\ plast' = "gather"
            /\ presult' = ppending
            /\ ppending' = <<>>
            /\ pexecutor' = "none"
            /\ pissued' = <<>>
            /\ pold' = pold \cup Range(ppending)
            /\ pdescexec' = PDescExecAfterGather(pview)
            /\ UNCHANGED <<praised, phadraise>>
    /\ UNCHANGED <<pjob, pfails, ptqdm_pre_update, pfinished, pn_workers, pview, pjobview,
                   ptqdm, pbar, pcurbar>>
    /\ UNCHANGED POthers

PNext ==
    \/ \E v \in PViews, fails \in BOOLEAN : PScatter(v, fails)
    \/ \E v \in PViews : PScatterClosed(v)
    \/ \E v \in PViews : PScatterNoList(v)
    \/ \E v \in PViews : PScatterNoWorkers(v)
    \/ \E j \in PJobIds : PStart(j)
    \/ \E j \in PJobIds : PFinish(j)
    \/ \E v \in PViews, progress \in BOOLEAN : PGatherNoPool(v, progress)
    \/ \E v \in PViews, progress \in BOOLEAN : PGatherNoList(v, progress)
    \/ \E v \in PViews, progress \in BOOLEAN : PGatherClose(v, progress)
    \/ PGatherFetch

\* ========================================================================
\* Thread worker pool
\* ========================================================================
TWorkers == 1..NTWorkers
TJobIds == 1..MaxTJobs

TOthers == <<qvars, lvars, ivars, avars, fvars, pvars>>

\* no Job
TNoJob == [id |-> 0, index |-> 0]

\* _ThreadWrapper.__init__(func, n_workers), lines 195-218
TConstruct(n) ==
    /\ tn_workers = n
    /\ job_queue = <<>>
    /\ workers_sem = n
    /\ tcounter = 0
    /\ tgen = 0
    /\ response_len = [g \in 0..MaxTGathers |-> 0]
    /\ tpc = "idle"
    /\ tjob = TNoJob
    /\ twpc = [w \in TWorkers |-> "none"]
    /\ twjob = [w \in TWorkers |-> TNoJob]
    /\ twres = [w \in TWorkers |-> 0]
    /\ tscattered = 0
    /\ texecuted = {}

\* thread(max_workers) for a worker count >= 1
TInit == \E n \in 1..NTWorkers : TConstruct(n)

\* the pool as it stays while another component is exercised
TRest == TConstruct(1)

\* the _ThreadWorker threads that have been started and have not ended
TAlive == {w \in TWorkers : twpc[w] \in {"get", "run", "exit"}}

\* scatter, lines 278-312: job_lightswitch.acquire(), index =
\* len(self.response), response.append(None), the promise and the Job are made
TScatterEnter ==
    /\ tpc = "idle"
    /\ tscattered < MaxTJobs
    /\ tcounter' = tcounter + 1
    /\ tjob' = [id |-> tscattered + 1, index |-> response_len[tgen]]
    /\ response_len' = [response_len EXCEPT ![tgen] = @ + 1]
    /\ tscattered' = tscattered + 1
    /\ tpc' = "dispatch"
    /\ UNCHANGED <<tn_workers, job_queue, workers_sem, tgen, twpc, twjob, twres, texecuted>>
    /\ UNCHANGED TOthers

\* _dispatch_job, line 267: self.job_queue.put(job)
TDispatchPut ==
    /\ tpc = "dispatch"
    /\ job_queue' = Append(job_queue, tjob)
    /\ tpc' = "create"
    /\ UNCHANGED <<tn_workers, workers_sem, tcounter, tgen, response_len, tjob, twpc, twjob,
                   twres, tscattered, texecuted>>
    /\ UNCHANGED TOthers

\* _create_worker, lines 254-256, and the return of scatter: a _ThreadWorker
\* is started when workers_sem.acquire(timeout=0) is True, none otherwise
TCreateWorker ==
    /\ tpc = "create"
    /\ IF workers_sem > 0
       THEN LET w == CHOOSE w \in TWorkers : twpc[w] = "none" IN
            /\ workers_sem' = workers_sem - 1
            /\ twpc' = [twpc EXCEPT ![w] = "get"]
            /\ twres' = [twres EXCEPT ![w] = tgen]
       ELSE UNCHANGED <<workers_sem, twpc, twres>>
    /\ tpc' = "idle"
    /\ tjob' = TNoJob
    /\ UNCHANGED <<tn_workers, job_queue, tcounter, tgen, response_len, twjob, tscattered,
                   texecuted>>
    /\ UNCHANGED TOthers

\* run, line 99: job_queue.get(timeout=0) gives the oldest job, or raises
\* queue.Empty (lines 112-114: the loop is left)
TWorkerGet(w) ==
    /\ twpc[w] = "get"
    /\ IF job_queue # <<>>
       THEN /\ twjob' = [twjob EXCEPT ![w] = Head(job_queue)]
            /\ job_queue' = Tail(job_queue)
            /\ twpc' = [twpc EXCEPT ![w] = "run"]
       ELSE /\ twpc' = [twpc EXCEPT ![w] = "exit"]
            /\ UNCHANGED <<twjob, job_queue>>
    /\ UNCHANGED <<tn_workers, workers_sem, tcounter, tgen, response_len, tpc, tjob, twres,
                   tscattered, texecuted>>
    /\ UNCHANGED TOthers

\* run, lines 100-111: the function is called and its result stored in
\* self.res[job.index], then res_queue.put and lightswitch.release(). When
\* the worker's deque is shorter than the index, lines 103 and 108 raise
\* IndexError: the thread ends without either release
TWorkerRun(w) ==
    /\ twpc[w] = "run"
    /\ texecuted' = texecuted \cup {twjob[w].id}
    /\ twjob' = [twjob EXCEPT ![w] = TNoJob]
    /\ IF twjob[w].index < response_len[twres[w]]
       THEN /\ tcounter' = tcounter - 1
            /\ twpc' = [twpc EXCEPT ![w] = "get"]
       ELSE /\ twpc' = [twpc EXCEPT ![w] = "dead"]
            /\ UNCHANGED tcounter
    /\ UNCHANGED <<tn_workers, job_queue, workers_sem, tgen, response_len, tpc, tjob, twres,
                   tscattered>>
    /\ UNCHANGED TOthers

\* run, lines 115-116: worker_sem.release(), the thread ends
TWorkerExit(w) ==
    /\ twpc[w] = "exit"
    /\ workers_sem' = workers_sem + 1
    /\ twpc' = [twpc EXCEPT ![w] = "none"]
    /\ UNCHANGED <<tn_workers, job_queue, tcounter, tgen, response_len, tpc, tjob, twjob,
                   twres, tscattered, texecuted>>
    /\ UNCHANGED TOthers

\* gather, lines 328-335: called; _finalize() finalizes res_queue
TGatherEnter ==
    /\ tpc = "idle"
    /\ tgen < MaxTGathers
    /\ tpc' = "gather"
    /\ UNCHANGED <<tn_workers, job_queue, workers_sem, tcounter, tgen, response_len, tjob,
                   twpc, twjob, twres, tscattered, texecuted>>
    /\ UNCHANGED TOthers

\* gather, lines 337-351: jobs_complete_lock is obtained (the LightSwitch
\* does not hold it), the responses are copied, clear() makes self.response
\* a new deque, the lock is released and the list returned
TGatherBody ==
    /\ tpc = "gather"
    /\ tcounter = 0
    /\ tgen' = tgen + 1
    /\ tpc' = "idle"
    /\ UNCHANGED <<tn_workers, job_queue, workers_sem, tcounter, response_len, tjob, twpc,
                   twjob, twres, tscattered, texecuted>>
    /\ UNCHANGED TOthers

\* the steps of the thread inside scatter or gather
TCallerStep == TDispatchPut \/ TCreateWorker \/ TGatherBody

\* the steps of _ThreadWorker w
TWorkerStep(w) == TWorkerGet(w) \/ TWorkerRun(w) \/ TWorkerExit(w)

TNext ==
    \/ TScatterEnter
    \/ TDispatchPut
    \/ TCreateWorker
    \/ TGatherEnter
    \/ TGatherBody
    \/ \E w \in TWorkers :
        \/ TWorkerGet(w)
        \/ TWorkerRun(w)
        \/ TWorkerExit(w)

\* fair scheduling: every started worker thread runs, and a scatter or
\* gather that was called goes on
TFairness ==
    /\ WF_vars(TCallerStep)
    /\ \A w \in TWorkers : WF_vars(TWorkerStep(w))

\* ========================================================================
\* Specifications
\* ========================================================================
\* every component freshly constructed, the IndexSemaphore with val = 1
Init == QInit /\ LInit /\ IRest /\ ARest /\ FInit /\ PRest /\ TRest

SpecQLock == Init /\ [][QNext]_vars

\* QLock under fair scheduling, every holder releasing
SpecQLockFair == Init /\ [][QNext]_vars /\ QFairness

\* QLock with callers that also release without holding
SpecQLockMisuse == Init /\ [][QMisuseNext]_vars

SpecLightSwitch == Init /\ [][SwNext]_vars

SpecLightSwitchMisuse == Init /\ [][SwMisuseNext]_vars

SpecRWLock == Init /\ [][RWNext]_vars

\* RWLock used through the scoped form
SpecRWLockScoped == Init /\ [][RWScopedNext]_vars

\* each thread uses the RWLock at most once: acquire(mode) without timeout,
\* then release(mode), under fair scheduling
SpecRWLockOnce == Init /\ [][RWOnceNext]_vars /\ RWFairness

\* IndexSemaphore(val) for each val in 1..MaxVal
InitIndexSemaphore == QInit /\ LInit /\ IInit /\ ARest /\ FInit /\ PRest /\ TRest

SpecIndexSemaphore == InitIndexSemaphore /\ [][INext]_vars

\* IndexSemaphore with callers that also release what they do not hold
SpecIndexSemaphoreMisuse == InitIndexSemaphore /\ [][IMisuseNext]_vars

\* Announcement(maxsize, backlog) for maxsize in {0, 1}, backlog None, 0 or 1
InitAnnouncement == QInit /\ LInit /\ IRest /\ AInit /\ FInit /\ PRest /\ TRest

SpecAnnouncement == InitAnnouncement /\ [][ANext]_vars

\* Announcement, unbounded, put / get / subscribe with MaxFifoPuts puts
InitAnnouncementFifo == QInit /\ LInit /\ IRest /\ AFifoInit /\ FInit /\ PRest /\ TRest

SpecAnnouncementFifo == InitAnnouncementFifo /\ [][AFifoNext]_vars

SpecFunnel == Init /\ [][FNext]_vars

\* process(n_workers) for n_workers in {0, NPWorkers}
InitProcess == QInit /\ LInit /\ IRest /\ ARest /\ FInit /\ PInit /\ TRest

SpecProcess == InitProcess /\ [][PNext]_vars

\* thread(n_workers) for n_workers in 1..NTWorkers, under fair scheduling
InitThread == QInit /\ LInit /\ IRest /\ ARest /\ FInit /\ PRest /\ TInit

SpecThreadFair == InitThread /\ [][TNext]_vars /\ TFairness

\* ========================================================================
\* Claims
\* ========================================================================
\* threads between a successful return of acquire and the end of their release
QHolders == {t \in QThreads : qpc[t] \in {"held", "rel_cs"}}

\* C1: QLock mutual exclusion: at most one thread is between a successful
\* return of acquire and its matching release.
C1_QLockMutex == Cardinality({t \in QThreads : qpc[t] = "held"}) <= 1

\* position of thread t in the arrival history (0 when absent)
QPos(t) ==
    IF t \in Range(qorder)
    THEN CHOOSE i \in 1..Len(qorder) : qorder[i] = t
    ELSE 0

\* a caller that arrived and is still waiting for its grant: queued on its
\* private lock, or woken (or about to be) and not timed out
QStillWaiting(u) ==
    \/ qpc[u] = "wait"
    \/ qpc[u] \in {"reacq", "post"} /\ qacquired[u]

\* C2: QLock FIFO order: grants follow arrival order; no caller has been
\* granted the lock while a caller that arrived earlier is still waiting.
C2_QLockFifo ==
    \A t, u \in QThreads :
        (qpc[t] = "held" /\ QStillWaiting(u)) => QPos(t) < QPos(u)

\* ---- LightSwitch ----
\* no acquire or release call of the LightSwitch is in progress
SwQuiescent == \A t \in LThreads : lpc[t] \notin {"sw_cs", "sw_rel"}

SwInvariant ==
    SwQuiescent =>
        (locks["lock"] = LSOwner("switch") <=> counter["switch"] > 0)

SwTransitions ==
    /\ (counter["switch"] = 0 /\ counter'["switch"] = 1) =>
           (locks["lock"] = 0 /\ locks'["lock"] = LSOwner("switch"))
    /\ (counter["switch"] = 1 /\ counter'["switch"] = 0) =>
           (locks["lock"] = LSOwner("switch") /\ locks'["lock"] = 0)
    /\ (counter["switch"] > 0 /\ counter'["switch"] > 0) =>
           locks'["lock"] = locks["lock"]

\* C6: LightSwitch invariant: whenever no acquire or release call is in
\* progress the guarded lock is held by the LightSwitch iff counter > 0; the
\* 0->1 acquire takes the guarded lock, the 1->0 release frees it, and
\* acquires/releases in between leave the guarded lock untouched.
C6_LightSwitch == []SwInvariant /\ [][SwTransitions]_vars

\* two holders are inside and the lock is held once, by the LightSwitch
C6_Witness ==
    /\ SwQuiescent
    /\ counter["switch"] = 2
    /\ locks["lock"] = LSOwner("switch")
    /\ \E t \in LThreads : lpc[t] = "failed"

\* ---- RWLock ----
Readers == {t \in LThreads : lpc[t] \in {"reading", "rr1"}}
Writers == {t \in LThreads : lpc[t] = "writing"}

\* the first reader never has to wait for no_writers inside read_counter.acquire
RNoWritersFreeForFirstReader ==
    \A t \in LThreads :
        (lpc[t] = "r4" /\ counter["read_counter"] = 0) => locks["no_writers"] = 0

\* C3: RWLock exclusivity: while a writer holds the lock no reader and no
\* other writer holds it; whenever the reader count is > 0, no_writers is
\* held on behalf of the readers (by read_counter), and the reader count is
\* the number of readers inside.
C3_RWExclusive ==
    /\ Writers # {} => (Readers = {} /\ Cardinality(Writers) = 1)
    /\ counter["read_counter"] > 0 => locks["no_writers"] = LSOwner("read_counter")
    /\ counter["read_counter"] = Cardinality(Readers)
    /\ \A w \in Writers : locks["no_writers"] = w

\* a writer holds the lock after waiting for a reader to leave
C3_Witness ==
    \E w \in LThreads :
        /\ lpc[w] = "writing"
        /\ \E r \in LThreads : lpc[r] = "r2"

\* C4 as stated: a reader whose acquire('r') began while a write attempt was
\* pending never holds the lock before that writer has acquired it.
C4_WriterPriorityOriginal ==
    \A r \in LThreads :
        lpc[r] = "reading" => (lbefore[r] = {} /\ lgaveup[r] = {})

\* C4 (amended): a reader whose acquire('r') began while a write attempt was
\* pending does not return success while that write attempt is still
\* pending: the writer acquires first, or its acquire times out.
C4_WriterPriority ==
    \A r \in LThreads : lpc[r] = "reading" => lbefore[r] = {}

\* a reader that began behind a pending writer is queued behind it while an
\* earlier reader has already left
C4_Witness ==
    \E r, w \in LThreads :
        /\ w \in lbefore[r]
        /\ lpc[r] = "r2"
        /\ lpc[w] = "w3"
        /\ Readers = {}
        /\ locks["no_writers"] = 0

\* threads on the writer side of the lock: attempting 'w', writing, or
\* in the middle of release('w') or of the rollback of a timed-out 'w'
WriterSide ==
    {t \in LThreads : lpc[t] \in {"w1", "w2", "w3", "writing", "wr1", "wr2", "w_rb1", "w_rb2"}}

\* the holder of lock l is nobody or a thread at one of the positions pcs
HeldOnlyAt(owner, pcs) == owner = 0 \/ (owner \in LThreads /\ lpc[owner] \in pcs)

\* C14: when no writer holds or is attempting the lock, nothing an
\* acquire('r') needs is kept by a reader that is inside: readers_queue,
\* no_readers and the counter lock of read_counter are free or held by a
\* thread in the middle of its own acquire('r') / release('r'), the first
\* reader finds no_writers free, and the reader count equals the number of
\* readers inside.
C14_ReaderConcurrency ==
    WriterSide = {} =>
        /\ HeldOnlyAt(locks["readers_queue"], {"r2", "r3", "r4"})
        /\ HeldOnlyAt(locks["no_readers"], {"r3", "r4"})
        /\ HeldOnlyAt(counter_lock["read_counter"], {"r4", "rr1"})
        /\ (counter["read_counter"] = 0 /\ \E t \in LThreads : lpc[t] = "r4")
               => locks["no_writers"] = 0
        /\ counter["read_counter"] = Cardinality(Readers)

\* all NLThreads readers hold the lock at once
C14_Witness ==
    /\ \A t \in LThreads : lpc[t] = "reading"
    /\ counter["read_counter"] = NLThreads
    /\ locks["no_writers"] = LSOwner("read_counter")

\* threads at one of the positions pcs
At(pcs) == {t \in LThreads : lpc[t] \in pcs}

\* the three locks and the two counters as the calls in progress and the
\* holders account for them; a thread that is idle, that has only called
\* acquire, or whose acquire returned False has no part in it
RWAccounted ==
    /\ counter["read_counter"] = Cardinality(At({"reading", "rr1"}))
    /\ counter["write_counter"] =
           Cardinality(At({"w3", "writing", "wr1", "wr2", "w_rb1", "w_rb2"}))
    /\ locks["readers_queue"] \in LThreads \cup {0}
    /\ \A t \in LThreads : locks["readers_queue"] = t <=> lpc[t] \in {"r2", "r3", "r4"}
    /\ locks["no_readers"] =
           IF At({"r3", "r4"}) # {} THEN CHOOSE t \in At({"r3", "r4"}) : TRUE
           ELSE IF counter["write_counter"] > 0 THEN LSOwner("write_counter")
           ELSE 0
    /\ locks["no_writers"] =
           IF At({"writing"}) # {} THEN CHOOSE t \in At({"writing"}) : TRUE
           ELSE IF counter["read_counter"] > 0 THEN LSOwner("read_counter")
           ELSE 0

\* C15: once an acquire('r', timeout) or acquire('w', timeout) has returned
\* False, readers_queue, no_readers, no_writers and both counters are what
\* they are without that call: the caller holds none of the locks and
\* counts in neither counter.
C15_TimeoutRollback ==
    (\E t \in LThreads : lpc[t] = "failed") => RWAccounted

\* a writer gave up at no_writers during a read and rolled back; a reader
\* that called acquire while the writer was pending is now inside
C15_Witness ==
    \E r, w \in LThreads :
        /\ lpc[w] = "failed"
        /\ w \in lgaveup[r]
        /\ lpc[r] = "reading"
        /\ counter["write_counter"] = 0
        /\ counter["read_counter"] = 2

\* ---- QLock: release at count 0 ----
\* thread t leaves the body of release() having found the count at 0
QReleaseAtZero(t) == qpc[t] = "rel_cs" /\ count = 0 /\ qpc'[t] # "rel_cs"

QReleaseRefused ==
    \A t \in QThreads :
        QReleaseAtZero(t) => (qpc'[t] = "raised" /\ count' = count /\ queue' = queue)

\* C16: a release() that finds the count at 0 raises and leaves the count
\* and the wait queue as they were; the count is never negative.
C16_ReleaseMisuse == [][QReleaseRefused]_vars /\ [](count >= 0)

\* a release was refused while a waiter's private lock is in the queue
C16_Witness ==
    \E t \in QThreads : qpc[t] = "raised" /\ count = 0 /\ queue # <<>>

\* ---- IndexSemaphore: over-release and timeout ----
\* threads that hold an index: acquire returned it, or the scoped form
\* obtained it and has not yet released it
IHolders ==
    {t \in IThreads : \/ ipc[t] = "holding"
                      \/ ipc[t] \in {"body", "except", "finally"} /\ iheld[t] # -1}

\* thread t leaves a release(index) it called directly, holding the index
\* or not
IReleaseEnds(t) == ipc[t] \in {"holding", "release"} /\ ipc'[t] # ipc[t]

IOverReleaseRefused ==
    \A t \in IThreads :
        (IReleaseEnds(t) /\ Len(ipool) = ival) => (ipc'[t] = "raised" /\ ipool' = ipool)

\* C17: a release(index) made while the free pool already holds N indices
\* raises and leaves the free pool unchanged.
C17_OverRelease == [][IOverReleaseRefused]_vars

\* a release was refused at a full pool
C17_Witness ==
    \E t \in IThreads : ipc[t] = "raised" /\ Len(ipool) = ival /\ ival >= 2

\* an acquire of thread t, direct or in the scoped form, ends in this step
IAcquireEnds(t) == ipc[t] = "idle" /\ ipc'[t] \in {"holding", "none", "body"}

\* the finally clause of the scoped form runs for thread t in this step
IFinallyRuns(t) == ipc[t] = "finally" /\ ipc'[t] # "finally"

ITimeoutAndScope ==
    \A t \in IThreads :
        /\ (IAcquireEnds(t) /\ ipool = <<>>) =>
               (iheld'[t] = -1 /\ ipool' = ipool /\ ipc'[t] \in {"none", "body"})
        /\ (IFinallyRuns(t) /\ iheld[t] = -1) => (ipool' = ipool /\ ipc'[t] = "idle")
        /\ (IFinallyRuns(t) /\ iheld[t] # -1) =>
               (ipool' = Append(ipool, iheld[t]) /\ ipc'[t] = "idle")
        /\ (ipc[t] \in {"body", "except"} /\ ipc'[t] # ipc[t]) =>
               (ipc'[t] \in {"except", "finally"} /\ iheld'[t] = iheld[t] /\ ipool' = ipool)

\* every index is in the free pool or with a holder (a scoped holder stays
\* one until its finally clause has run)
IConserved ==
    \A i \in 0..(ival - 1) : i \in Range(ipool) \/ \E t \in IHolders : iheld[t] = i

\* C18: an acquire that finds no free index returns None and leaves the
\* free pool unchanged; the scoped form then yields None and its exit does
\* not release; a scoped acquisition that obtained an index appends it to
\* the free pool when the body ends, normally or by an exception.
C18_TimeoutNone == [][ITimeoutAndScope]_vars /\ []IConserved

\* both indices were handed out and have come back, index 1 first; a scoped
\* caller that got None in between is about to leave without a release
C18_Witness ==
    /\ ival = 2
    /\ ipool = <<1, 0>>
    /\ \E t \in IThreads :
           /\ ipc[t] = "finally" /\ iheld[t] = -1
           /\ \A u \in IThreads \ {t} : ipc[u] = "idle"

\* ---- IndexSemaphore ----

\* C5: IndexSemaphore per-index mutual exclusion: no two concurrently held
\* acquisitions have the same index, every returned index is in [0, N), and
\* a held index is not in the free pool.
C5_IndexExclusive ==
    /\ \A t, u \in IHolders : t # u => iheld[t] # iheld[u]
    /\ \A t \in IHolders : iheld[t] \in 0..(ival - 1)
    /\ \A t \in IHolders : iheld[t] \notin Range(ipool)

\* every index is held, after an index was released and re-acquired, and
\* one more acquirer timed out
C5_Witness ==
    /\ ival >= 2
    /\ Cardinality(IHolders) = ival
    /\ ipool = <<>>
    /\ \E t \in IHolders : iheld[1] > iheld[t]
    /\ \E t \in IThreads : ipc[t] = "none"

\* ---- Announcement ----

\* C7: when a put(item) on a node returns, item has been added exactly once
\* to the queue of every other node in the subscribers deque, and the queue
\* of the node that put, like the queue of every node outside the deque, has
\* received nothing
C7_Multicast ==
    \A t \in AThreads :
        apc[t] = "put_exit" =>
            \A n \in ANodeIds :
                adelivered[n] =
                    IF n \in Range(asubs) /\ n # aloc[t].self
                    THEN Append(asnap[n], aloc[t].item)
                    ELSE asnap[n]

\* a put by a node that was itself created by subscribe returns with two
\* other nodes in the subscribers deque
C7_Witness ==
    \E t \in AThreads :
        /\ apc[t] = "put_exit"
        /\ aloc[t].self > 1
        /\ aloc[t].self \in Range(asubs)
        /\ Len(asubs) = 3

\* C8: a node returned by a subscribe that began with an unbounded backlog
\* and before any finalize call has received, first of all and in publish
\* order, the items of every put that had returned; when subscribe returns
\* its queue holds exactly these
C8_BacklogReplay ==
    /\ \A n \in ahandles : apre[n] => IsPrefix(abase[n], adelivered[n])
    /\ \A t \in AThreads :
           (apc[t] = "sub_exit" /\ apre[aloc[t].new]) =>
               aq[aloc[t].new] = abase[aloc[t].new]

\* a subscribe returned a node to which two earlier items were replayed
C8_Witness ==
    \E n \in ahandles : apre[n] /\ Len(abase[n]) = 2 /\ Len(adelivered[n]) = 2

\* C9: once finalize() has been called on a member, no subscribe call gets
\* past the check of self.final (finalize and subscribe both run under the
\* family lock, so a subscribe found past the check began after finalize)
C9_FinalizeStopsSubscribe ==
    afinalized => \A t \in AThreads : apc[t] \notin {"sub", "sub_exit"}

\* the items of seq that node P put, in the order they have in seq
AItemsOf(P, seq) == SelectSeq(seq, LAMBDA x : aputter[x] = P)

\* items are numbered in the order of the put calls: strictly increasing
AInPutOrder(seq) == \A i, j \in 1..Len(seq) : i < j => seq[i] < seq[j]

\* what is left in q is the tail of hist: get took the items from the front
AIsTail(q, hist) ==
    /\ Len(q) <= Len(hist)
    /\ q = SubSeq(hist, Len(hist) - Len(q) + 1, Len(hist))

\* C20: for any node P and any other node S, the items P put are put on S's
\* queue in the order of P's put calls, and S's gets take them from the
\* front of that queue in the same order.
C20_SubscriberFifo ==
    \A S \in 1..anodes :
        /\ AIsTail(aq[S], adelivered[S])
        /\ \A P \in 1..anodes : P # S => AInPutOrder(AItemsOf(P, adelivered[S]))

\* S has received item 2, of another node, between items 1 and 3 of P, and
\* has taken the first two; the put of item 3 is still going round
C20_Witness ==
    \E S, P \in 1..anodes :
        /\ P # S
        /\ adelivered[S] = <<1, 2, 3>>
        /\ AItemsOf(P, adelivered[S]) = <<1, 3>>
        /\ aputter[2] # S
        /\ aq[S] = <<3>>
        /\ \E t \in AThreads : apc[t] = "put"

\* ---- Funnel ----

\* the step is the body of a put by thread t
FPutRuns(t) == fpc[t] = "put_cs" /\ fpc'[t] = "idle"

\* the put thread t is running fills the last unfilled slot of its job: every
\* other subscribed member has put for the job since it was last complete
FFillsLast(t) == Range(fsubs) \ fcontrib[floc[t].jid] \subseteq {floc[t].self}

\* the slots of the dict are the puts made for the job since it was last
\* complete, so a job with an unfilled slot is in the dict or has no put yet
FSlotsFilled ==
    \A j \in JIds :
        fcontrib[j] = {m \in Range(fsubs) :
                          /\ j \in DOMAIN fd
                          /\ findex[m] + 1 <= Len(fd[j])
                          /\ fd[j][findex[m] + 1].complete}

\* a step puts on the output queue exactly when it is a put that fills the
\* last unfilled slot of its job; it then puts one tuple, of that job, with one
\* element per subscribed member, and removes the job from the dict
FEmission ==
    /\ (Len(fq') > Len(fq)) <=> (\E t \in FThreads : FPutRuns(t) /\ FFillsLast(t))
    /\ \A t \in FThreads :
           (FPutRuns(t) /\ FFillsLast(t)) =>
               /\ Len(fq') = Len(fq) + 1
               /\ SubSeq(fq', 1, Len(fq)) = fq
               /\ fq'[Len(fq')][1] = floc[t].jid
               /\ Len(fq'[Len(fq')]) = 1 + Len(fsubs)
               /\ floc[t].jid \notin DOMAIN fd'

\* C10: the tuple of a job is put on the output queue once, by the put that
\* fills the job's last unfilled slot and by no earlier step, and that put
\* removes the job's entry from the dict
C10_FunnelJoin == []FSlotsFilled /\ [][FEmission]_vars

\* a job of two members is on the output queue and gone from the dict while
\* another job of theirs is still waiting for a slot
C10_Witness ==
    /\ Len(fsubs) = 2
    /\ \E i \in 1..Len(fq) : Len(fq[i]) = 3 /\ fq[i][1] \notin DOMAIN fd
    /\ \E j \in DOMAIN fd : Cardinality(fcontrib[j]) = 1

\* the item member m has put for the job of the put thread t is running,
\* that put included
FItemOf(t, m) == IF m = floc[t].self THEN floc[t].item ELSE fitem[floc[t].jid][m]

\* the tuple a completing put of thread t adds is the job id followed, at
\* place i (from 0), by the item of the member whose index is i
FTupleOrder ==
    \A t \in FThreads :
        (FPutRuns(t) /\ Len(fq') > Len(fq)) =>
            LET tup == fq'[Len(fq')] IN
            /\ tup[1] = floc[t].jid
            /\ Len(tup) = 1 + Len(fsubs)
            /\ \A m \in Range(fsubs) : tup[findex[m] + 2] = FItemOf(t, m)

\* C11: the tuple emitted for a job is (job_id, v_0, ..., v_{N-1}) with v_i
\* the item put by the member whose index is i, whatever the order of the puts
C11_FunnelTupleOrder == [][FTupleOrder]_vars

\* a tuple of two members is on the output queue whose member of index 1 put
\* before its member of index 0 (items are numbered in the order of the puts)
C11_Witness ==
    \E i \in 1..Len(fq) : Len(fq[i]) = 3 /\ fq[i][3] < fq[i][2]

\* a put on member n by thread t is answered in this step with
\* FunnelPutTopError
FPutTopAnswered(t) == fpc[t] = "idle" /\ fpc'[t] = "top_error"

FRootPutRefused ==
    \A t \in FThreads : FPutTopAnswered(t) => (fd' = fd /\ fq' = fq)

\* no put is at work for a funnel whose slot index is negative
FNoRootPutRuns ==
    \A t \in FThreads : fpc[t] = "put_cs" => findex[floc[t].self] >= 0

\* C19: put() on a Funnel whose slot index is negative raises
\* FunnelPutTopError, never gets to the job dict, and changes neither the
\* job dict nor the output queue.
C19_FunnelRootPut == [][FRootPutRefused]_vars /\ []FNoRootPutRuns

\* a put on the funnel of the constructor was refused while a job is
\* part-filled and another thread's put is at work
C19_Witness ==
    \E t, u \in FThreads :
        /\ fpc[t] = "top_error"
        /\ findex[floc[t].self] < 0
        /\ fpc[u] = "put_cs"
        /\ DOMAIN fd # {}

\* ---- Process worker pool ----

\* the step is a gather that returns its list
PGatherReturns == ppc = "join" /\ ppc' = "idle" /\ plast' = "gather"

\* the list gather returns holds the result of every scatter call made since
\* the last gather returned, once each, in the order of the calls, and no
\* result that an earlier gather returned
PGatherOrder ==
    PGatherReturns =>
        /\ presult' = pissued
        /\ \A i, k \in 1..Len(presult') : presult'[i] = presult'[k] => i = k
        /\ Range(presult') \cap pold = {}

C13_FailureIsolation ==
    /\ plast = "gather_raised" =>
           /\ praised \in Range(ppending)
           /\ pjob[praised] = "err"
           /\ \A j \in Range(ppending) : pjob[j] \in {"ok", "err"}
    /\ phadraise => plast # "scatter_error"

\* ------------------------------------------------------------------------
\* Process pool: lifecycle across views, zero workers, progress
\* ------------------------------------------------------------------------

\* the outcomes a scatter call can end with
PScatterOutcomes ==
    {"scatter", "scatter_error", "scatter_type_error", "scatter_pool_error"}

\* a scatter call that follows a gather which returned creates a pool and is
\* accepted, whatever view either call went through
PScatterAfterGather ==
    (pn_workers > 0 /\ plast = "gather" /\ plast' \in PScatterOutcomes)
        => (plast' = "scatter" /\ pexecutor = "none" /\ pexecutor' = "open")

\* C21: no pool exists before the first scatter nor after a gather that
\* returned, through whichever view it was called, and the next scatter
\* through any view of the same decorated callable creates a new pool and
\* succeeds
C21_PoolLifecycle ==
    /\ [](plast \in {"none", "gather"} => pexecutor = "none")
    /\ [][PScatterAfterGather]_vars

\* C22: with an effective worker count of 0 every scatter call is accepted
\* and its job has run by the time scatter returns, so that gather has
\* nothing to wait for, no call ends in an error of the pool, and the length
\* of the decorated callable is 0 throughout
C22_ZeroWorkerSync ==
    pn_workers = 0 =>
        /\ plast \in {"none", "scatter", "gather", "gather_raised"}
        /\ \A i \in 1..Len(ppending) : pjob[ppending[i]] \in {"ok", "err"}
        /\ PLen = 0

\* a gather that was given a progress object returns: the increments the
\* object has received add up to the number of handles that were pending
PProgressCounts ==
    (PGatherReturns /\ pcurbar # 0) => pbar'[pcurbar] = Len(ppending)

\* C23: when a gather called with a progress object returns, the sum of the
\* increments delivered to that object equals the number of handles pending
\* at that gather, in every cycle and through every view
C23_ProgressAccounting == [][PProgressCounts]_vars

\* ------------------------------------------------------------------------
\* Announcement: after finalize, bounded backlog
\* ------------------------------------------------------------------------

\* a put call reaches the end of its loop after finalize(): every node of
\* the subscribers deque but the putting one has received the item, and the
\* backlog is as it was
APutAfterFinalize ==
    \A t \in AThreads :
        (afinalized /\ apc[t] = "put" /\ apc'[t] = "put_exit") =>
            /\ abacklog' = abacklog
            /\ \A m \in Range(asubs) :
                  m # aloc[t].self =>
                      adelivered[m] = Append(asnap[m], aloc[t].item)

\* C24: after finalize() a put of any node still delivers the item to every
\* other subscribed node's queue, but adds nothing to the backlog, and no
\* node of the family keeps a reference to the backlog
C24_AfterFinalize ==
    /\ [](afinalized => \A n \in 1..anodes : ~ahasbl[n])
    /\ [][APutAfterFinalize]_vars

\* the last maxlen items of seq, all of them when maxlen is 0 (no bound)
ALast(seq, maxlen) ==
    IF maxlen > 0 /\ Len(seq) > maxlen
    THEN SubSeq(seq, Len(seq) - maxlen + 1, Len(seq))
    ELSE seq

\* C25: with a backlog of B > 0 items, when a subscribe made before any
\* finalize returns, the new node's queue holds the items of the last
\* min(B, k) of the k puts that have returned, in publish order; with a
\* backlog <= 0 it holds the items of all k
C25_BoundedBacklog ==
    \A t \in AThreads :
        (apc[t] = "sub_exit" /\ abacklog_use /\ ~afinalized) =>
            aq[aloc[t].new] = ALast(apublished, abl_maxlen)

\* a subscribe returns after three puts, with a backlog of two items: the
\* first item was evicted and the new node holds the other two in order
C25_Witness ==
    \E t \in AThreads :
        /\ apc[t] = "sub_exit"
        /\ abl_maxlen = 2
        /\ apublished = <<1, 2, 3>>
        /\ aq[aloc[t].new] = <<2, 3>>

\* ------------------------------------------------------------------------
\* QLock: timed-out acquire, length
\* ------------------------------------------------------------------------

\* the callers inside acquire whose private lock has been queued
QWaiters == {t \in QThreads : qpc[t] \in {"wait", "reacq", "post"}}

\* an acquire that timed out returns False: the count is as it was and the
\* caller's private lock is not in the queue
QTimedOutReturn ==
    \A t \in QThreads :
        (qpc[t] = "post" /\ ~qacquired[t] /\ qpc'[t] = "idle") =>
            /\ count' = count
            /\ qmine[t] \notin Range(queue')

\* C26: an acquire(timeout) that times out returns False with the count
\* unchanged and without its private lock in the wait queue: every lock in
\* the queue belongs to a caller that is still inside acquire, so that the
\* next release wakes the earliest caller still waiting
C26_TimedOutAcquire ==
    /\ [](\A i \in 1..Len(queue) : \E t \in QWaiters : qmine[t] = queue[i])
    /\ [][QTimedOutReturn]_vars

\* __len__, lines 50-53
QLen == count

\* locked, lines 55-59
QLockedProperty == count > 0

\* C27: the length of the lock is the number of callers that hold it plus the
\* number of callers queued inside acquire, and locked is true exactly when
\* that number is positive
C27_QLockLength ==
    /\ QLen = Cardinality(QHolders) + Cardinality(QWaiters)
    /\ QLockedProperty <=> (Cardinality(QHolders) + Cardinality(QWaiters) > 0)

\* ------------------------------------------------------------------------
\* LightSwitch: failed acquire, counter bound
\* ------------------------------------------------------------------------

\* an acquire(timeout) of the LightSwitch returns False: the counter and
\* the guarded lock are as they were and the caller does not hold the
\* counter lock; when it was the guarded lock that could not be obtained,
\* the counter lock is free and the guarded lock is held by someone other
\* than the LightSwitch
SwFailedAcquire ==
    \A t \in LThreads :
        (lpc[t] \in {"idle", "sw_cs"} /\ lpc'[t] = "failed") =>
            /\ counter'["switch"] = counter["switch"]
            /\ locks' = locks
            /\ counter_lock'["switch"] # t
            /\ lpc[t] = "sw_cs" =>
                   /\ counter_lock'["switch"] = 0
                   /\ locks'["lock"] \in LThreads

SwInside == {t \in LThreads : lpc[t] \in {"in", "sw_rel"}}

\* successful acquires minus releases: an acquire and the release of the
\* same caller cancel, which leaves the callers inside minus the releases
\* of callers that were not inside
SwAcquiresMinusReleases == Cardinality(SwInside) - lover

\* C29 as stated: for every sequence of acquire and release calls the
\* counter is >= 0 and equals the number of successful acquires minus the
\* number of releases
C29_CounterBoundOriginal ==
    /\ counter["switch"] >= 0
    /\ counter["switch"] = SwAcquiresMinusReleases

\* C29: the counter equals the number of successful acquires minus the
\* number of releases for every sequence of calls, and is >= 0 as long as
\* no release was called by a caller that was not inside
C29_CounterBound ==
    /\ counter["switch"] = SwAcquiresMinusReleases
    /\ lover = 0 => counter["switch"] >= 0

\* two callers are inside after one release by a caller that was not, and
\* an acquire has failed: the counter is 1
C29_Witness ==
    /\ Cardinality(SwInside) = 2
    /\ lover = 1
    /\ counter["switch"] = 1
    /\ \E t \in LThreads : lpc[t] = "failed"

\* ------------------------------------------------------------------------
\* Funnel: slot assignment
\* ------------------------------------------------------------------------

\* __len__, lines 120-129
FLen == Len(fsubs)

\* C30: members are numbered in the order their subscribe() took the family
\* lock: the k-th subscribe, counting from 0, gives a member with index k,
\* the indices of the members are pairwise distinct, the funnel of the
\* constructor keeps index -1, and the length of the family is the number of
\* subscribed members
C30_FunnelSlots ==
    /\ findex[0] = -1
    /\ \A m \in 1..fmembers : findex[m] = m - 1 /\ fsubs[m] = m
    /\ \A m, n \in 1..fmembers : m # n => findex[m] # findex[n]
    /\ FLen = fmembers

\* MaxMembers members have subscribed and a put of the last one is running
C30_Witness ==
    /\ fmembers = MaxMembers
    /\ findex[MaxMembers] = MaxMembers - 1
    /\ FLen = MaxMembers
    /\ \E t \in FThreads : fpc[t] = "put_cs" /\ floc[t].self = MaxMembers

\* ------------------------------------------------------------------------
\* Funnel: growth, job independence
\* ------------------------------------------------------------------------

\* member m has a filled slot in the dict entry of jid
FFilled(jid, m) ==
    /\ jid \in DOMAIN fd
    /\ findex[m] + 1 <= Len(fd[jid])
    /\ fd[jid][findex[m] + 1].complete

\* a put that emits: every other member subscribed at that moment has a
\* filled slot, and the tuple has the job id and one element per member
FGrowthEmission ==
    \A t \in FThreads :
        (FPutRuns(t) /\ Len(fq') > Len(fq)) =>
            /\ \A m \in Range(fsubs) \ {floc[t].self} : FFilled(floc[t].jid, m)
            /\ Len(fq'[Len(fq')]) = 1 + Len(fsubs)

\* C31: a job that was part-filled when a member subscribed is not emitted
\* before that member too has put for the job id: a dict entry never has a
\* filled slot for every member, a put emits only when every other member
\* subscribed at that moment has a filled slot, and the emitted tuple has
\* the job id and exactly one element per member subscribed at that moment
C31_FunnelGrowth ==
    /\ [](\A jid \in DOMAIN fd : \E m \in Range(fsubs) : ~FFilled(jid, m))
    /\ [][FGrowthEmission]_vars

\* three members: one job has been grown to three slots by a put made after
\* the third member subscribed and waits for that member alone; another job
\* still has the two slots it had before
C31_Witness ==
    /\ Len(fsubs) = 3
    /\ \E j, k \in DOMAIN fd :
          /\ Len(fd[j]) = 3
          /\ fd[j][1].complete /\ fd[j][2].complete /\ ~fd[j][3].complete
          /\ Len(fd[k]) = 2

\* a put for job id jid runs: the dict entries of the other job ids are as
\* they were; the output queue is as it was or one tuple longer, and then
\* the entry of jid is gone; a put that finds no entry for jid, the job id
\* being new or completed before, leaves at most its own slot filled
FPutTouchesOwnJob ==
    \A t \in FThreads :
        FPutRuns(t) =>
            LET jid == floc[t].jid IN
            /\ \A k \in JIds \ {jid} :
                  /\ k \in DOMAIN fd' <=> k \in DOMAIN fd
                  /\ k \in DOMAIN fd => fd'[k] = fd[k]
            /\ \/ fq' = fq /\ jid \in DOMAIN fd'
               \/ Len(fq') = Len(fq) + 1 /\ SubSeq(fq', 1, Len(fq)) = fq
                  /\ jid \notin DOMAIN fd'
            /\ (jid \notin DOMAIN fd /\ jid \in DOMAIN fd') =>
                  \A i \in 1..Len(fd'[jid]) :
                      fd'[jid][i].complete => i = findex[floc[t].self] + 1

\* C32: a put for job id j changes only the dict entry of j, and the output
\* queue when j completes; the slots of every other job id in flight are
\* unchanged, and a job id used again after its completion starts from an
\* array with no slot filled
C32_FunnelJobIndependence == [][FPutTouchesOwnJob]_vars

\* a job id whose tuple is on the output queue is in flight again with one
\* slot filled, next to another job id in flight
C32_Witness ==
    \E j, k \in DOMAIN fd :
        /\ j # k
        /\ \E i \in 1..Len(fq) : fq[i][1] = j
        /\ Len(fd[j]) = 2
        /\ Cardinality({i \in 1..2 : fd[j][i].complete}) = 1

\* ------------------------------------------------------------------------
\* Guard locks and blocking waits
\* ------------------------------------------------------------------------

\* a caller of LightSwitch.acquire holds the counter lock while the guarded
\* lock it has to take, the counter being 0, is held by someone else
SwWaitsHoldingCounterLock ==
    \E t \in LThreads :
        /\ lpc[t] = "sw_cs"
        /\ counter_lock["switch"] = t
        /\ counter["switch"] = 0
        /\ locks["lock"] # 0

\* a caller of Announcement.put or subscribe holds the family lock while the
\* queue its next q.put(...) goes to is full
AWaitsHoldingFamilyLock ==
    \E t \in AThreads :
        /\ alock = t
        /\ \/ /\ apc[t] = "put"
              /\ aloc[t].idx <= Len(asubs)
              /\ asubs[aloc[t].idx] # aloc[t].self
              /\ AFull(asubs[aloc[t].idx])
           \/ /\ apc[t] = "sub"
              /\ aloc[t].idx <= Len(AReplay)
              /\ AFull(aloc[t].new)

\* C33: no thread holds the guard lock of a shared structure (the counter
\* lock of a LightSwitch, the family lock of an Announcement) while it waits
\* for another resource (the guarded lock, room in a full queue)
C33_GuardLockPolicy ==
    /\ ~SwWaitsHoldingCounterLock
    /\ ~AWaitsHoldingFamilyLock

\* ------------------------------------------------------------------------
\* QLock: liveness
\* ------------------------------------------------------------------------

\* C34: under fair scheduling, every holder releasing in the end, a caller
\* that waits in acquire without a timeout ends up holding the lock, also
\* when acquire calls of other callers time out while queued
C34_QLockLiveness ==
    \A t \in QThreads :
        (qpc[t] = "wait" /\ ~qtimed[t]) ~> (qpc[t] = "held")

\* ------------------------------------------------------------------------
\* RWLock: deadlock freedom, scoped form
\* ------------------------------------------------------------------------

\* the threads between their call of acquire and the return of their release
RWBusy == {t \in LThreads : lpc[t] \notin {"idle", "done"}}

\* while a thread is busy, some busy thread can take a step
RWNoDeadlock == RWBusy # {} => \E t \in RWBusy : ENABLED RWStep(t)

\* C35: with threads that each call acquire(mode) without timeout and then
\* release(mode), in any mix of 'r' and 'w', no reachable state is a
\* deadlock, and under fair scheduling every thread that called acquire
\* completes its release
C35_RWDeadlockFree ==
    /\ []RWNoDeadlock
    /\ \A t \in LThreads : (lpc[t] \in {"r1", "w1"}) ~> (lpc[t] = "done")

\* one thread has completed, one is writing and a reader waits for
\* no_readers with readers_queue held
C35_Witness ==
    \E t, u, v \in LThreads :
        /\ lpc[t] = "done"
        /\ lpc[u] = "writing"
        /\ lpc[v] = "r2" /\ locks["readers_queue"] = v

\* a step of a thread that leaves a scope whose acquire timed out
RWScopedFailedExit(t) == lpc'[t] # lpc[t] /\ lscope'[t] = "failed"

\* C36: when the acquire of the scoped form rw_lock(mode, timeout) timed
\* out, leaving the scope releases no lock and leaves the reader count and
\* the writer count as they were
C36_ScopedTimeout ==
    [][\A t \in LThreads :
          RWScopedFailedExit(t) => (locks' = locks /\ counter' = counter)]_vars

\* ---- IndexSemaphore: the free pool ----

\* no index is in the free pool twice
IPoolDistinct ==
    \A i, j \in DOMAIN ipool : i # j => ipool[i] # ipool[j]

\* C37: after any sequence of acquire and release(i) calls that did not
\* raise, releases of an index the caller does not hold included, the free
\* pool contains no index twice and no index is held by two holders
C37_FreePoolDistinct ==
    /\ IPoolDistinct
    /\ \A t, u \in IHolders : t # u => iheld[t] # iheld[u]

\* ---- Announcement: put that raises queue.Full ----

\* the put of thread t raises queue.Full
APutRaisesFull(t) == apc[t] = "put" /\ apc'[t] = "idle"

\* C38: when put raises queue.Full, no subscriber's queue has received the
\* item and the backlog is unchanged: an item is delivered to all other
\* subscribers or to none
C38_PutAtomic ==
    [][\A t \in AThreads :
          APutRaisesFull(t) =>
              /\ \A n \in ANodeIds : aloc[t].item \notin Range(adelivered[n])
              /\ adelivered = asnap
              /\ abacklog' = abacklog]_vars

\* ---- Announcement: subscribe racing with put ----

\* the nodes made by a subscribe that began with an unbounded backlog and
\* before any finalize, once the replay of that subscribe is over
ASubscribedWithBacklog ==
    {n \in 1..anodes :
        /\ apre[n]
        /\ \/ n \in ahandles
           \/ \E t \in AThreads : apc[t] = "sub_exit" /\ aloc[t].new = n}

\* C39: with an unbounded backlog and no finalize, a member made by a
\* subscribe that runs concurrently with puts of other threads has received
\* every item published by other nodes, each once, in publish order, and
\* nothing else
C39_SubscribePutRace ==
    \A n \in ASubscribedWithBacklog :
        /\ \A i, j \in 1..Len(adelivered[n]) :
               i < j => adelivered[n][i] < adelivered[n][j]
        /\ \A x \in Range(apublished) : aputter[x] # n => x \in Range(adelivered[n])
        /\ \A x \in Range(adelivered[n]) : aputter[x] # n

\* a member got one item by replay and a later one directly, has put an
\* item itself, and a further put and a further subscribe are contending
C39_Witness ==
    \E n \in ASubscribedWithBacklog, t \in AThreads :
        /\ Len(abase[n]) = 1
        /\ Len(adelivered[n]) = 2
        /\ \E x \in Range(apublished) : aputter[x] = n
        /\ apc[t] = "sub"

\* ---- Thread worker pool ----

====
